---- MODULE Spec2Model ----
(***************************************************************************)
(* Timeline segmentation (artified_backend/pipelines/timeline_pipeline.py) *)
(* and trigger detection (artified_backend/pipelines/trigger_pipeline.py). *)
(*                                                                         *)
(* Time.  A datetime is an integer number of half-minutes since midnight   *)
(* of the day: frame timestamps are drawn on whole minutes, so a midpoint  *)
(* a + (b - a) / 2 is exact.  A minute of the day (parse_hhmm) is an       *)
(* integer number of minutes.  An "HH:MM" string is the pair <<h, m>>.     *)
(*                                                                         *)
(* Left out of a segment: context_detail, supporting_surfaces and notes    *)
(* (copied through, read by no operation modelled here).                   *)
(***************************************************************************)
EXTENDS Integers, Sequences, FiniteSets, TLC

VARIABLES
    cfg,             \* AppConfig: the timeline fields of config.py
    frames,          \* frame_results of build_timeline / frames of _merge_frames_into_segments
    pc,              \* position of the running operation
    inferred_interval, \* _merge_frames_into_segments: inferred_interval
    initial,         \* _merge_frames_into_segments: initial (provisional segments)
    idle_intervals,  \* _merge_frames_into_segments: idle_intervals
    all_segments,    \* _merge_frames_into_segments: all_segments after the sort
    segments,        \* the returned timeline segments / the segments a detector scans
    args,            \* the arguments the detectors are called with
    outputs,         \* what the runs completed so far returned, oldest first
    last_sent_at,    \* CooldownTracker.last_sent_at
    candidates,      \* generate_feedback_events: candidates
    events,          \* the events list of the running detector
    pos,             \* index of the segment the running detector's loop reads next
    consecutive, emitted, chain_ids,            \* detect_focus_levels
    off_min, off_ids, was_off,                  \* detect_return_to_work
    switches, prev, window_start, window_ids,   \* detect_anomaly_switching
    running, paused, _stop_evt, _thread,        \* CaptureManager (serve.py): its fields
    loops,           \* the threads CaptureManager.start created, each running _loop
    shots,           \* the screenshots _capture_once saved, oldest first
    held,            \* pause(True) was called and no pause(False), stop() or start() since
    run_capture,     \* run_capture (main.py): its local variables
    log,             \* run_capture: the entries appended to the session log
    retry            \* _call_generate_content_with_quota_retry: its arguments and locals

mergeVars == <<cfg, frames, inferred_interval, initial, idle_intervals, all_segments>>
focusVars == <<consecutive, emitted, chain_ids>>
returnVars == <<off_min, off_ids, was_off>>
anomalyVars == <<switches, prev, window_start, window_ids>>
triggerVars == <<args, outputs, last_sent_at, candidates, events, pos,
                 focusVars, returnVars, anomalyVars>>

captureVars == <<running, paused, _stop_evt, _thread, loops, shots, held,
                 run_capture, log>>
serviceVars == <<captureVars, retry>>
pipelineVars == <<pc, segments, mergeVars, triggerVars>>

vars == <<pipelineVars, serviceVars>>

\* CAP = CaptureManager(): the manager as __init__ leaves it, None being 0;
\* run_capture not called
CaptureIdle ==
    /\ running = FALSE
    /\ paused = FALSE
    /\ _stop_evt = FALSE
    /\ _thread = 0
    /\ loops = << >>
    /\ shots = << >>
    /\ held = FALSE
    /\ run_capture = [paused |-> FALSE]
    /\ log = << >>

\* the manager idle and _call_generate_content_with_quota_retry not called
ServiceIdle ==
    /\ CaptureIdle
    /\ retry = [max_retries |-> 0, attempt |-> 0]

----------------------------------------------------------------------------
(* Bounds of the model *)

MaxFrames == 4

(* Inputs *)

\* gaps between consecutive screenshots, in minutes
Gaps == {1, 4, 5, 15, 55}

\* time of the first screenshot of the day, minute of the day (08:00)
FirstTimes == {480}

\* (dominant_surface, activity) the classifier returns, with the confidence
\* (per mille) it gives to a frame of that kind
Buckets == {
    [dominant_surface |-> "YouTube", activity |-> "Video",  confidence |-> 500],
    [dominant_surface |-> "VSCode",  activity |-> "Coding", confidence |-> 900] }

\* a screenshot file: a uniform gray level 0..255, or -1 for a file
\* Image.open cannot read
Images == {-1, 10}

Configs == [ capture_interval_minutes : {15},
             idle_gap_minutes : {4, 20},
             idle_similarity_threshold : {985},
             idle_margin_minutes : {0, 5} ]

----------------------------------------------------------------------------
(* Arithmetic of Python *)

Max(a, b) == IF a >= b THEN a ELSE b
Min(a, b) == IF a <= b THEN a ELSE b
Abs(a) == IF a >= 0 THEN a ELSE 0 - a

\* timedelta(minutes=m) in half-minutes
Minutes(m) == 2 * m

\* round(n / d) of Python 3 for d > 0: to the nearest integer, a tie to the even one
PyRound(n, d) ==
    LET q == n \div d
        r == n % d
    IN  IF 2 * r < d THEN q
        ELSE IF 2 * r > d THEN q + 1
        ELSE IF q % 2 = 0 THEN q ELSE q + 1

\* a duration counted in half-minutes
DurationMinutesMut(s, e) == e - s

\* int(round((e - s).total_seconds() / 60))
DurationMinutes(s, e) == PyRound(e - s, 2)

\* datetime.strftime("%H:%M"): the clock time, seconds cut off
strftime(dt) == << ((dt \div 2) \div 60) % 24, (dt \div 2) % 60 >>

\* parse_hhmm of trigger_pipeline.py
parse_hhmm(s) == s[1] * 60 + s[2]

RECURSIVE Insert(_, _)
Insert(x, s) ==
    IF s = << >> THEN << x >>
    ELSE IF x < Head(s) THEN << x >> \o s
    ELSE << Head(s) >> \o Insert(x, Tail(s))

RECURSIVE SortInts(_)
\* list.sort() of a list of numbers
SortInts(s) == IF s = << >> THEN << >> ELSE Insert(Head(s), SortInts(Tail(s)))

----------------------------------------------------------------------------
(* _infer_capture_interval_minutes *)

\* the positive consecutive deltas, in half-minutes
PositiveDeltas(times) ==
    LET all == [i \in 1..(Len(times) - 1) |-> times[i + 1] - times[i]]
    IN  SelectSeq(all, LAMBDA d : d > 0)

\* an interval that takes the fallback as it is given
InferCaptureIntervalMinutesMut(times, fallback) == fallback

\* an interval that takes the upper of the two middle deltas, not their mean
InferCaptureIntervalUpperMedian(times, fallback) ==
    IF Len(times) < 2 THEN Max(1, fallback)
    ELSE LET deltas == SortInts(PositiveDeltas(times))
             n == Len(deltas)
             mid == n \div 2
         IN  IF n = 0 THEN Max(1, fallback)
             ELSE Max(1, PyRound(deltas[mid + 1], 2))

InferCaptureIntervalMinutes(times, fallback) ==
    IF Len(times) < 2 THEN Max(1, fallback)
    ELSE LET deltas == SortInts(PositiveDeltas(times))
             n == Len(deltas)
             mid == n \div 2        \* 0-based index
         IN  IF n = 0 THEN Max(1, fallback)
             ELSE IF n % 2 = 1
                  THEN Max(1, PyRound(deltas[mid + 1], 2))
                  ELSE Max(1, PyRound(deltas[mid] + deltas[mid + 1], 4))

----------------------------------------------------------------------------
(* _image_similarity, compared with the threshold (per mille):             *)
(* sim = 1 - mean_diff / 255, 0 when a file cannot be read                 *)

\* a comparison every pair of images passes
SimilarityAtLeastMut(img_a, img_b, threshold) == TRUE

SimilarityAtLeast(img_a, img_b, threshold) ==
    IF img_a < 0 \/ img_b < 0
    THEN 0 >= threshold
    ELSE (255 - Abs(img_a - img_b)) * 1000 >= threshold * 255

----------------------------------------------------------------------------
(* _merge_frames_into_segments: the provisional segments *)

boundary_mid(a, b) == a + (b - a) \div 2

\* an inner loop that stops at once: every frame is a run of its own
RunEndSingle(fs, end_idx) == end_idx

RECURSIVE RunEnd(_, _)
\* the inner while loop: the last index of the run that starts at start_idx
RunEnd(fs, end_idx) ==
    IF end_idx + 1 <= Len(fs)
       /\ fs[end_idx + 1].dominant_surface = fs[end_idx].dominant_surface
       /\ fs[end_idx + 1].activity = fs[end_idx].activity
    THEN RunEnd(fs, end_idx + 1)
    ELSE end_idx

SegStart(fs, start_idx) ==
    IF start_idx = 1 THEN fs[start_idx].dt
    ELSE boundary_mid(fs[start_idx - 1].dt, fs[start_idx].dt)

SegEndMut(fs, end_idx, interval) ==
    IF end_idx < Len(fs) THEN fs[end_idx].dt
    ELSE fs[end_idx].dt + Minutes(interval)

SegEnd(fs, end_idx, interval) ==
    IF end_idx < Len(fs) THEN boundary_mid(fs[end_idx].dt, fs[end_idx + 1].dt)
    ELSE fs[end_idx].dt + Minutes(interval)

RECURSIVE SumConfidence(_, _, _)
SumConfidence(fs, i, j) ==
    IF i > j THEN 0 ELSE fs[i].confidence + SumConfidence(fs, i + 1, j)

\* one provisional segment, for the run start_idx..end_idx
RunSegment(fs, start_idx, end_idx, interval) ==
    LET n == end_idx - start_idx + 1
        \* round(avg_conf, 3), per mille
        conf == PyRound(SumConfidence(fs, start_idx, end_idx), n)
        \* avg_conf < 0.60
        low == SumConfidence(fs, start_idx, end_idx) < 600 * n
    IN  [ start_dt |-> SegStart(fs, start_idx),
          end_dt |-> SegEnd(fs, end_idx, interval),
          dominant_surface |-> fs[start_idx].dominant_surface,
          activity |-> fs[start_idx].activity,
          confidence |-> conf,
          evidence_frames |-> [k \in 1..n |-> fs[start_idx + k - 1].filename],
          risk_flags |-> IF low THEN << "low_confidence" >> ELSE << "none" >> ]

RECURSIVE BuildInitial(_, _, _)
\* the outer while loop, from start_idx on
BuildInitial(fs, start_idx, interval) ==
    IF start_idx > Len(fs) THEN << >>
    ELSE LET end_idx == RunEnd(fs, start_idx)
         IN  << RunSegment(fs, start_idx, end_idx, interval) >>
             \o BuildInitial(fs, end_idx + 1, interval)

----------------------------------------------------------------------------
(* _merge_frames_into_segments: the idle intervals *)

\* a margin that is not capped by a quarter of the gap
IdleMarginMut(c, delta) == c.idle_margin_minutes

\* a margin whose quarter of the gap is rounded up to a whole minute
IdleMarginRoundsUp(c, delta) == Min(c.idle_margin_minutes, (delta + 7) \div 8)

\* margin = min(cfg.idle_margin_minutes, int(delta_min / 4)), delta in half-minutes
IdleMargin(c, delta) == Min(c.idle_margin_minutes, delta \div 8)

\* the idle interval of the adjacent pair (a, b), or none: a sequence of 0 or 1
IdleIntervalOf(c, a, b) ==
    LET delta == b.dt - a.dt
        margin == IdleMargin(c, delta)
        istart == a.dt + Minutes(margin)
        iend == b.dt - Minutes(margin)
    IN  IF delta < Minutes(c.idle_gap_minutes) THEN << >>
        ELSE IF ~ SimilarityAtLeast(a.img, b.img, c.idle_similarity_threshold) THEN << >>
        ELSE IF iend > istart THEN << [istart |-> istart, iend |-> iend] >>
        ELSE << >>

RECURSIVE FindIdleIntervals(_, _, _)
\* the for loop over the adjacent pairs, from pair i on
FindIdleIntervals(c, fs, i) ==
    IF i >= Len(fs) THEN << >>
    ELSE IdleIntervalOf(c, fs[i], fs[i + 1]) \o FindIdleIntervals(c, fs, i + 1)

----------------------------------------------------------------------------
(* _merge_frames_into_segments: carving *)

\* a subtraction that leaves the segment whole
subtract_intervalMut(seg, cut_start, cut_end) == << seg >>

\* a subtraction whose left remainder runs on to the end of the cut
subtract_intervalOverlap(seg, cut_start, cut_end) ==
    IF cut_end <= seg.start_dt \/ cut_start >= seg.end_dt THEN << seg >>
    ELSE (IF cut_start > seg.start_dt
          THEN << [seg EXCEPT !.end_dt = cut_end] >> ELSE << >>)
         \o
         (IF cut_end < seg.end_dt
          THEN << [seg EXCEPT !.start_dt = cut_end] >> ELSE << >>)

subtract_interval(seg, cut_start, cut_end) ==
    IF cut_end <= seg.start_dt \/ cut_start >= seg.end_dt THEN << seg >>
    ELSE (IF cut_start > seg.start_dt
          THEN << [seg EXCEPT !.end_dt = cut_start] >> ELSE << >>)
         \o
         (IF cut_end < seg.end_dt
          THEN << [seg EXCEPT !.start_dt = cut_end] >> ELSE << >>)

RECURSIVE SubtractFromAll(_, _, _)
\* the inner for loop: new_carved
SubtractFromAll(segs, cut_start, cut_end) ==
    IF segs = << >> THEN << >>
    ELSE subtract_interval(Head(segs), cut_start, cut_end)
         \o SubtractFromAll(Tail(segs), cut_start, cut_end)

RECURSIVE Carve(_, _)
\* the outer for loop over idle_intervals: carved
Carve(segs, intervals) ==
    IF intervals = << >> THEN segs
    ELSE Carve(SubtractFromAll(segs, Head(intervals).istart, Head(intervals).iend),
               Tail(intervals))

IdleSegment(iv) ==
    [ start_dt |-> iv.istart,
      end_dt |-> iv.iend,
      dominant_surface |-> "Idle",
      activity |-> "Idle",
      confidence |-> 600,
      evidence_frames |-> << >>,
      risk_flags |-> << "idle_detected" >> ]

\* no Idle segment is added
IdleSegmentsMut(intervals) == << >>

IdleSegments(intervals) == [k \in 1..Len(intervals) |-> IdleSegment(intervals[k])]

----------------------------------------------------------------------------
(* _merge_frames_into_segments: normalisation *)

RECURSIVE InsertByStart(_, _)
\* x goes after every entry whose start is not later: the sort is stable
InsertByStart(x, s) ==
    IF s = << >> THEN << x >>
    ELSE IF x.start_dt < Head(s).start_dt THEN << x >> \o s
    ELSE << Head(s) >> \o InsertByStart(x, Tail(s))

RECURSIVE SortByStartFrom(_, _)
SortByStartFrom(s, k) ==
    IF k = 0 THEN << >> ELSE InsertByStart(s[k], SortByStartFrom(s, k - 1))

\* all_segments.sort(key=lambda s: s["start_dt"])
SortByStart(s) == SortByStartFrom(s, Len(s))

\* one entry of the returned list; segment_id "S%03d" is kept as its number
FinalSegment(idx, seg) ==
    [ segment_id |-> idx,
      start_time_local |-> strftime(seg.start_dt),
      end_time_local |-> strftime(seg.end_dt),
      duration_minutes |-> DurationMinutes(seg.start_dt, seg.end_dt),
      dominant_surface |-> seg.dominant_surface,
      activity |-> seg.activity,
      confidence |-> seg.confidence,
      evidence_frames |-> seg.evidence_frames,
      risk_flags |-> seg.risk_flags ]

RECURSIVE Finalize(_, _)
\* the last for loop, from entry idx on
Finalize(all, idx) ==
    IF idx > Len(all) THEN << >>
    ELSE (IF DurationMinutes(all[idx].start_dt, all[idx].end_dt) <= 0 THEN << >>
          ELSE << FinalSegment(idx, all[idx]) >>)
         \o Finalize(all, idx + 1)

----------------------------------------------------------------------------
(* Arguments of the detectors *)

\* generate_feedback_events: thresholds=[15, 25, 40], min_offwork_minutes=5,
\* and the defaults of detect_anomaly_switching
PipelineArgs ==
    [ thresholds |-> << 15, 25, 40 >>, min_offwork_minutes |-> 5,
      window_minutes |-> 120, switch_threshold |-> 10 ]

\* detect_anomaly_switching called for a 60-minute window and 6 switches
HourArgs ==
    [ thresholds |-> << 15, 25, 40 >>, min_offwork_minutes |-> 5,
      window_minutes |-> 60, switch_threshold |-> 6 ]

----------------------------------------------------------------------------
(* Operations *)

\* build_timeline: one pass of the loop that classifies a screenshot and
\* appends its FrameResult; images are listed sorted by time
AppendFrame ==
    /\ pc = "load"
    /\ Len(frames) < MaxFrames
    /\ \E b \in Buckets, img \in Images,
          dt \in IF frames = << >>
                 THEN {Minutes(t) : t \in FirstTimes}
                 ELSE {frames[Len(frames)].dt + Minutes(g) : g \in Gaps} :
          frames' = Append(frames,
                [ dt |-> dt, filename |-> Len(frames) + 1,
                  dominant_surface |-> b.dominant_surface,
                  activity |-> b.activity,
                  confidence |-> b.confidence,
                  img |-> img ])
    /\ UNCHANGED <<cfg, pc, inferred_interval, initial, idle_intervals,
                   all_segments, segments, triggerVars>>
    /\ UNCHANGED serviceVars

\* a day without frames that is given one placeholder segment
EmptyDayMut(c) ==
    [ segments |-> << [ segment_id |-> 1, start_time_local |-> << 0, 0 >>,
                        end_time_local |-> << 0, 0 >>, duration_minutes |-> 0,
                        dominant_surface |-> "Idle", activity |-> "Idle",
                        confidence |-> 0, evidence_frames |-> << >>,
                        risk_flags |-> << "none" >> ] >>,
      inferred_interval |-> Max(1, c.capture_interval_minutes) ]

\* if not frames: return [], max(1, int(cfg.capture_interval_minutes))
EmptyDay(c) ==
    [ segments |-> << >>,
      inferred_interval |-> Max(1, c.capture_interval_minutes) ]

\* _merge_frames_into_segments(cfg, frames, day_dir)
Merge ==
    /\ pc = "load"
    /\ pc' = "merged"
    /\ IF frames = << >>
       THEN /\ inferred_interval' = EmptyDay(cfg).inferred_interval
            /\ initial' = << >>
            /\ idle_intervals' = << >>
            /\ all_segments' = << >>
            /\ segments' = EmptyDay(cfg).segments
       ELSE LET times == [i \in 1..Len(frames) |-> frames[i].dt]
                interval == InferCaptureIntervalMinutes(times, cfg.capture_interval_minutes)
                init == BuildInitial(frames, 1, interval)
                idles == FindIdleIntervals(cfg, frames, 1)
                carved == Carve(init, idles)
                all == SortByStart(carved \o IdleSegments(idles))
            IN  /\ inferred_interval' = interval
                /\ initial' = init
                /\ idle_intervals' = idles
                /\ all_segments' = all
                /\ segments' = Finalize(all, 1)
    /\ UNCHANGED <<cfg, frames, triggerVars>>
    /\ UNCHANGED serviceVars

\* the detectors' variables before any detector runs, a being the arguments
\* the detectors will be called with
TriggerInit(a) ==
    /\ args = a
    /\ outputs = << >>
    /\ last_sent_at = << >>
    /\ candidates = << >>
    /\ events = << >>
    /\ pos = 1
    /\ consecutive = 0 /\ emitted = {} /\ chain_ids = << >>
    /\ off_min = 0 /\ off_ids = << >> /\ was_off = FALSE
    /\ switches = 0 /\ prev = << >> /\ window_start = << >> /\ window_ids = << >>

InitMerge ==
    /\ cfg \in Configs
    /\ frames = << >>
    /\ pc = "load"
    /\ inferred_interval = 0
    /\ initial = << >>
    /\ idle_intervals = << >>
    /\ all_segments = << >>
    /\ segments = << >>
    /\ TriggerInit(PipelineArgs)
    /\ ServiceIdle

NextMerge == AppendFrame \/ Merge

SpecMerge == InitMerge /\ [][NextMerge]_vars

----------------------------------------------------------------------------
(* trigger_pipeline.py: work inference and the cooldown ledger *)

DEFAULT_WORK_ACTIVITIES == {"Coding", "Writing/Reading"}

\* bool(v); a Python value is written as its literal: "True", "None", "0",
\* "''" (the empty string), "'false'" (a string of five letters), ...
bool(v) == v \notin {"False", "None", "0", "''"}

\* an inference that lets the activity make a segment work against its flag
infer_is_workMut(seg) ==
    \/ "is_work" \in DOMAIN seg /\ bool(seg.is_work)
    \/ "activity" \in DOMAIN seg /\ seg.activity \in DEFAULT_WORK_ACTIVITIES

\* safe_get(seg, "activity", "") when the segment has no is_work
infer_is_work(seg) ==
    IF "is_work" \in DOMAIN seg THEN bool(seg.is_work)
    ELSE (IF "activity" \in DOMAIN seg THEN seg.activity ELSE "")
            \in DEFAULT_WORK_ACTIVITIES

\* a cooldown that also lets a send through one minute early
can_sendMut(ledger, key, now_min, cooldown_min) ==
    IF key \notin DOMAIN ledger THEN TRUE
    ELSE (now_min - ledger[key]) >= cooldown_min - 1

\* CooldownTracker.can_send, ledger being self.last_sent_at
can_send(ledger, key, now_min, cooldown_min) ==
    IF key \notin DOMAIN ledger THEN TRUE
    ELSE (now_min - ledger[key]) >= cooldown_min

\* CooldownTracker.mark_sent: the ledger it leaves
mark_sent(ledger, key, now_min) == (key :> now_min) @@ ledger

\* the cooldowns the detectors pass to can_send, and the cooldown_minutes
\* they write into an event
FirstWorkCooldown == 1440
FirstWorkCooldownReported == 1440
FocusCooldown == 60
FocusCooldownReported == 180
ReturnCooldown == 60
ReturnCooldownReported == 180
AnomalyCooldown == 180
AnomalyCooldownReported == 180

\* evidence_segment_ids keeps the last 6 (focus, return) or 12 (anomaly) ids
FocusEvidenceTail == 6
ReturnEvidenceTail == 6
AnomalyEvidenceTail == 12

\* s[-n:]
LastN(s, n) == IF Len(s) <= n THEN s ELSE SubSeq(s, Len(s) - n + 1, Len(s))

\* f"L{i+1}" and f"focus_{level}" for the i-th threshold, i = 1..4 here
LevelNames == << "L1", "L2", "L3", "L4" >>
\* keys of the focus levels of which the first is the key of return_to_work
FocusKeysShared == << "return_to_work", "focus_L2", "focus_L3", "focus_L4" >>

FocusKeys == << "focus_L1", "focus_L2", "focus_L3", "focus_L4" >>

\* the variants dictionary of detect_focus_levels: three texts for each of
\* L1, L2, L3 (a text is <<level, number, th>>), none for another level
Variants(level, th) ==
    IF level \in {"L1", "L2", "L3"}
    THEN [k \in 1..3 |-> << level, k, th >>]
    ELSE << >>

\* stands for int(sha256(salt).hexdigest()[:8], 16): a fixed function of the
\* salt f"{segment_id}_{level}_{end_min}" and of nothing else
Digest(segment_id, level, end_min) ==
    segment_id * 31 + Len(SelectSeq(LevelNames, LAMBDA l : l = level)) * 17
        + end_min * 7 + 3

\* _choose(options, salt); "" is << >>
_choose(options, segment_id, level, end_min) ==
    IF options = << >> THEN << >>
    ELSE options[(Digest(segment_id, level, end_min) % Len(options)) + 1]

----------------------------------------------------------------------------
(* detect_first_work *)

\* a first_work event timed at the segment's end
FirstWorkEventMut(seg) ==
    [ event_id |-> << "firstwork", seg.segment_id >>,
      time_local |-> seg.end_time_local,
      time_minute_of_day |-> parse_hhmm(seg.end_time_local),
      trigger_type |-> "first_work",
      level |-> "L1",
      ui |-> [type |-> "corner_bubble", intensity |-> "light"],
      message |-> << "first_work" >>,
      evidence_segment_ids |-> << seg.segment_id >>,
      cooldown_minutes |-> FirstWorkCooldownReported ]

FirstWorkEvent(seg) ==
    [ event_id |-> << "firstwork", seg.segment_id >>,
      time_local |-> seg.start_time_local,
      time_minute_of_day |-> parse_hhmm(seg.start_time_local),
      trigger_type |-> "first_work",
      level |-> "L1",
      ui |-> [type |-> "corner_bubble", intensity |-> "light"],
      message |-> << "first_work" >>,
      evidence_segment_ids |-> << seg.segment_id >>,
      cooldown_minutes |-> FirstWorkCooldownReported ]

\* the call of detector d: its local variables as its first lines set them
\* (d is "done" or "sort" when no detector is called next)
Enter(d) ==
    /\ IF d = "focus"
       THEN consecutive' = 0 /\ emitted' = {} /\ chain_ids' = << >>
       ELSE UNCHANGED focusVars
    /\ IF d = "return_to_work"
       THEN off_min' = 0 /\ off_ids' = << >> /\ was_off' = FALSE
       ELSE UNCHANGED returnVars
    /\ IF d = "anomaly"
       THEN switches' = 0 /\ prev' = << >> /\ window_start' = << >> /\ window_ids' = << >>
       ELSE UNCHANGED anomalyVars

\* one pass of the loop of detect_first_work, or its return [] after the
\* last segment; next is where the caller goes on
FirstWorkStep(next) ==
    /\ pc = "first_work"
    /\ IF pos > Len(segments)
       THEN /\ pc' = next /\ pos' = 1
            /\ Enter(next)
            /\ UNCHANGED <<candidates, last_sent_at>>
       ELSE LET seg == segments[pos]
                start_min == parse_hhmm(seg.start_time_local)
            IN  IF ~ infer_is_work(seg)
                THEN /\ pos' = pos + 1
                     /\ UNCHANGED <<pc, candidates, last_sent_at,
                                    focusVars, returnVars, anomalyVars>>
                ELSE /\ pc' = next /\ pos' = 1
                     /\ Enter(next)
                     /\ IF can_send(last_sent_at, "first_work", start_min, FirstWorkCooldown)
                        THEN /\ candidates' = candidates \o << FirstWorkEvent(seg) >>
                             /\ last_sent_at' = mark_sent(last_sent_at, "first_work", start_min)
                        ELSE UNCHANGED <<candidates, last_sent_at>>
    /\ UNCHANGED <<segments, mergeVars, args, outputs, events>>
    /\ UNCHANGED serviceVars

\* a detector's return events, after the last segment: the caller appends
\* them to candidates
DetectorReturn(me, next) ==
    /\ pc = me
    /\ pos > Len(segments)
    /\ candidates' = candidates \o events
    /\ events' = << >>
    /\ pos' = 1
    /\ pc' = next
    /\ Enter(next)
    /\ UNCHANGED <<segments, mergeVars, args, outputs, last_sent_at>>
    /\ UNCHANGED serviceVars

----------------------------------------------------------------------------
(* detect_focus_levels *)

FocusEvent(seg, n, th, chain) ==
    LET level == LevelNames[n]
        end_min == parse_hhmm(seg.end_time_local)
    IN  [ event_id |-> << "focus", seg.segment_id, level >>,
          time_local |-> seg.end_time_local,
          time_minute_of_day |-> end_min,
          trigger_type |-> "focus",
          level |-> level,
          ui |-> [type |-> "corner_bubble",
                  intensity |-> IF level = "L1" THEN "light" ELSE "medium"],
          message |-> _choose(Variants(level, th), seg.segment_id, level, end_min),
          evidence_segment_ids |-> LastN(chain, FocusEvidenceTail),
          cooldown_minutes |-> FocusCooldownReported ]

\* a threshold that fires whatever the ledger says
FocusFiresNoCooldown(seg, cons, ths, n, st) ==
    /\ cons >= ths[n]
    /\ LevelNames[n] \notin st.emitted

\* a threshold that fires only once the chain is longer than it
FocusFiresStrict(seg, cons, ths, n, st) ==
    /\ cons > ths[n]
    /\ LevelNames[n] \notin st.emitted
    /\ can_send(st.ledger, FocusKeys[n], parse_hhmm(seg.end_time_local), FocusCooldown)

\* a threshold that fires again within a chain once the cooldown has run out
FocusFiresAgain(seg, cons, ths, n, st) ==
    /\ cons >= ths[n]
    /\ can_send(st.ledger, FocusKeys[n], parse_hhmm(seg.end_time_local), FocusCooldown)

\* whether threshold n fires at seg, st holding the ledger and the emitted set
FocusFires(seg, cons, ths, n, st) ==
    /\ cons >= ths[n]
    /\ LevelNames[n] \notin st.emitted
    /\ can_send(st.ledger, FocusKeys[n], parse_hhmm(seg.end_time_local), FocusCooldown)

RECURSIVE FocusLevels(_, _, _, _, _, _)
\* the loop over enumerate(thresholds), from threshold n on;
\* st is [events, ledger, emitted]
FocusLevels(seg, cons, chain, ths, n, st) ==
    IF n > Len(ths) THEN st
    ELSE FocusLevels(seg, cons, chain, ths, n + 1,
            IF FocusFires(seg, cons, ths, n, st)
            THEN [ events |-> Append(st.events, FocusEvent(seg, n, ths[n], chain)),
                   ledger |-> mark_sent(st.ledger, FocusKeys[n],
                                        parse_hhmm(seg.end_time_local)),
                   emitted |-> st.emitted \cup {LevelNames[n]} ]
            ELSE st)

\* one pass of the loop over the segments
FocusStep ==
    /\ pc = "focus"
    /\ pos <= Len(segments)
    /\ LET seg == segments[pos]
           dur == seg.duration_minutes
       IN  IF infer_is_work(seg)
           THEN LET cons == consecutive + dur
                    chain == Append(chain_ids, seg.segment_id)
                    st == FocusLevels(seg, cons, chain, args.thresholds, 1,
                             [events |-> events, ledger |-> last_sent_at,
                              emitted |-> emitted])
                IN  /\ consecutive' = cons
                    /\ chain_ids' = chain
                    /\ events' = st.events
                    /\ last_sent_at' = st.ledger
                    /\ emitted' = st.emitted
           ELSE /\ consecutive' = 0
                /\ emitted' = {}
                /\ chain_ids' = << >>
                /\ UNCHANGED <<events, last_sent_at>>
    /\ pos' = pos + 1
    /\ UNCHANGED <<pc, segments, mergeVars, args, outputs, candidates, returnVars, anomalyVars>>
    /\ UNCHANGED serviceVars

----------------------------------------------------------------------------
(* detect_return_to_work *)

ReturnEvent(seg, minutes, ids) ==
    [ event_id |-> << "return", seg.segment_id >>,
      time_local |-> seg.start_time_local,
      time_minute_of_day |-> parse_hhmm(seg.start_time_local),
      trigger_type |-> "return_to_work",
      level |-> "L2",
      ui |-> [type |-> "toast", intensity |-> "medium"],
      message |-> << "return", minutes >>,
      evidence_segment_ids |-> LastN(ids, ReturnEvidenceTail) \o << seg.segment_id >>,
      cooldown_minutes |-> ReturnCooldownReported ]

\* a return that needs more than min_offwork_minutes away
ReturnFiresMut(seg) ==
    /\ was_off
    /\ off_min > args.min_offwork_minutes
    /\ can_send(last_sent_at, "return_to_work",
                parse_hhmm(seg.start_time_local), ReturnCooldown)

\* the condition under which detect_return_to_work emits at a work segment
ReturnFires(seg) ==
    /\ was_off
    /\ off_min >= args.min_offwork_minutes
    /\ can_send(last_sent_at, "return_to_work",
                parse_hhmm(seg.start_time_local), ReturnCooldown)

\* a pass that resets the off-work tracking only when an event fired
ReturnStepKeepsOff ==
    /\ pc = "return_to_work"
    /\ pos <= Len(segments)
    /\ LET seg == segments[pos]
           start_min == parse_hhmm(seg.start_time_local)
           dur == seg.duration_minutes
           fires == /\ was_off
                    /\ off_min >= args.min_offwork_minutes
                    /\ can_send(last_sent_at, "return_to_work", start_min, ReturnCooldown)
       IN  IF ~ infer_is_work(seg)
           THEN /\ was_off' = TRUE
                /\ off_min' = off_min + dur
                /\ off_ids' = Append(off_ids, seg.segment_id)
                /\ UNCHANGED <<events, last_sent_at>>
           ELSE IF fires
                THEN /\ events' = Append(events, ReturnEvent(seg, off_min, off_ids))
                     /\ last_sent_at' = mark_sent(last_sent_at, "return_to_work", start_min)
                     /\ was_off' = FALSE
                     /\ off_min' = 0
                     /\ off_ids' = << >>
                ELSE UNCHANGED <<events, last_sent_at, returnVars>>
    /\ pos' = pos + 1
    /\ UNCHANGED <<pc, segments, mergeVars, args, outputs, candidates, focusVars, anomalyVars>>
    /\ UNCHANGED serviceVars

ReturnStep ==
    /\ pc = "return_to_work"
    /\ pos <= Len(segments)
    /\ LET seg == segments[pos]
           start_min == parse_hhmm(seg.start_time_local)
           dur == seg.duration_minutes
       IN  IF ~ infer_is_work(seg)
           THEN /\ was_off' = TRUE
                /\ off_min' = off_min + dur
                /\ off_ids' = Append(off_ids, seg.segment_id)
                /\ UNCHANGED <<events, last_sent_at>>
           ELSE /\ IF ReturnFires(seg)
                   THEN /\ events' = Append(events, ReturnEvent(seg, off_min, off_ids))
                        /\ last_sent_at' = mark_sent(last_sent_at, "return_to_work", start_min)
                   ELSE UNCHANGED <<events, last_sent_at>>
                /\ was_off' = FALSE
                /\ off_min' = 0
                /\ off_ids' = << >>
    /\ pos' = pos + 1
    /\ UNCHANGED <<pc, segments, mergeVars, args, outputs, candidates, focusVars, anomalyVars>>
    /\ UNCHANGED serviceVars

----------------------------------------------------------------------------
(* detect_anomaly_switching; None is << >>, a value x is << x >> *)

AnomalyEvent(seg, ids) ==
    [ event_id |-> << "anomaly", seg.segment_id >>,
      time_local |-> seg.end_time_local,
      time_minute_of_day |-> parse_hhmm(seg.end_time_local),
      trigger_type |-> "anomaly",
      level |-> "L2",
      ui |-> [type |-> "toast", intensity |-> "medium"],
      message |-> << "anomaly" >>,
      evidence_segment_ids |-> LastN(ids, AnomalyEvidenceTail),
      cooldown_minutes |-> AnomalyCooldownReported ]

\* a window that closes one segment late: > in place of >=
WindowClosesMut(end_min, ws) == end_min - ws > args.window_minutes

\* if end_min - window_start >= window_minutes
WindowCloses(end_min, ws) == end_min - ws >= args.window_minutes

\* a pass that keeps prev over the close of a window: a flip between the
\* closing segment and the next one is counted in the next window
AnomalyStepCarriesPrev ==
    /\ pc = "anomaly"
    /\ pos <= Len(segments)
    /\ LET seg == segments[pos]
           start_min == parse_hhmm(seg.start_time_local)
           end_min == parse_hhmm(seg.end_time_local)
           cur == infer_is_work(seg)
           ws == IF window_start = << >> THEN start_min ELSE window_start[1]
           ids == Append(window_ids, seg.segment_id)
           sw == IF prev # << >> /\ cur # prev[1] THEN switches + 1 ELSE switches
           fire == /\ sw >= args.switch_threshold
                   /\ can_send(last_sent_at, "anomaly_switching", end_min, AnomalyCooldown)
       IN  IF WindowCloses(end_min, ws)
           THEN /\ IF fire
                   THEN /\ events' = Append(events, AnomalyEvent(seg, ids))
                        /\ last_sent_at' = mark_sent(last_sent_at, "anomaly_switching", end_min)
                   ELSE UNCHANGED <<events, last_sent_at>>
                /\ switches' = 0
                /\ prev' = << cur >>
                /\ window_start' = << >>
                /\ window_ids' = << >>
           ELSE /\ switches' = sw
                /\ prev' = << cur >>
                /\ window_start' = << ws >>
                /\ window_ids' = ids
                /\ UNCHANGED <<events, last_sent_at>>
    /\ pos' = pos + 1
    /\ UNCHANGED <<pc, segments, mergeVars, args, outputs, candidates, focusVars, returnVars>>
    /\ UNCHANGED serviceVars

AnomalyStep ==
    /\ pc = "anomaly"
    /\ pos <= Len(segments)
    /\ LET seg == segments[pos]
           start_min == parse_hhmm(seg.start_time_local)
           end_min == parse_hhmm(seg.end_time_local)
           cur == infer_is_work(seg)
           ws == IF window_start = << >> THEN start_min ELSE window_start[1]
           ids == Append(window_ids, seg.segment_id)
           sw == IF prev # << >> /\ cur # prev[1] THEN switches + 1 ELSE switches
           fire == /\ sw >= args.switch_threshold
                   /\ can_send(last_sent_at, "anomaly_switching", end_min, AnomalyCooldown)
       IN  IF WindowCloses(end_min, ws)
           THEN /\ IF fire
                   THEN /\ events' = Append(events, AnomalyEvent(seg, ids))
                        /\ last_sent_at' = mark_sent(last_sent_at, "anomaly_switching", end_min)
                   ELSE UNCHANGED <<events, last_sent_at>>
                /\ switches' = 0
                /\ prev' = << >>
                /\ window_start' = << >>
                /\ window_ids' = << >>
           ELSE /\ switches' = sw
                /\ prev' = << cur >>
                /\ window_start' = << ws >>
                /\ window_ids' = ids
                /\ UNCHANGED <<events, last_sent_at>>
    /\ pos' = pos + 1
    /\ UNCHANGED <<pc, segments, mergeVars, args, outputs, candidates, focusVars, returnVars>>
    /\ UNCHANGED serviceVars

----------------------------------------------------------------------------
(* generate_feedback_events *)

RECURSIVE InsertByStartMin(_, _)
InsertByStartMin(x, s) ==
    IF s = << >> THEN << x >>
    ELSE IF parse_hhmm(x.start_time_local) < parse_hhmm(Head(s).start_time_local)
         THEN << x >> \o s
         ELSE << Head(s) >> \o InsertByStartMin(x, Tail(s))

RECURSIVE SortByStartMinFrom(_, _)
SortByStartMinFrom(s, k) ==
    IF k = 0 THEN << >> ELSE InsertByStartMin(s[k], SortByStartMinFrom(s, k - 1))

\* sorted(segments, key=lambda s: parse_hhmm(s["start_time_local"]))
SortByStartMin(s) == SortByStartMinFrom(s, Len(s))

RECURSIVE InsertByTimeMut(_, _)
\* an insertion that puts an event before those of the same minute
InsertByTimeMut(x, s) ==
    IF s = << >> THEN << x >>
    ELSE IF x.time_minute_of_day <= Head(s).time_minute_of_day THEN << x >> \o s
    ELSE << Head(s) >> \o InsertByTimeMut(x, Tail(s))

RECURSIVE InsertByTime(_, _)
InsertByTime(x, s) ==
    IF s = << >> THEN << x >>
    ELSE IF x.time_minute_of_day < Head(s).time_minute_of_day THEN << x >> \o s
    ELSE << Head(s) >> \o InsertByTime(x, Tail(s))

RECURSIVE SortByTimeFrom(_, _)
SortByTimeFrom(s, k) ==
    IF k = 0 THEN << >> ELSE InsertByTime(s[k], SortByTimeFrom(s, k - 1))

\* candidates.sort(key=lambda e: e.time_minute_of_day)
SortByTime(s) == SortByTimeFrom(s, Len(s))

\* a tracker that outlives the call: the ledger of the call before
CooldownTrackerShared == last_sent_at

\* CooldownTracker(): the ledger of a new tracker
CooldownTracker == << >>

\* the head of generate_feedback_events: the segments sorted, a new tracker
GenerateStart ==
    /\ pc = "generate"
    /\ segments' = SortByStartMin(segments)
    /\ last_sent_at' = CooldownTracker
    /\ candidates' = << >>
    /\ pc' = "first_work"
    /\ UNCHANGED <<mergeVars, args, outputs, events, pos, focusVars, returnVars, anomalyVars>>
    /\ UNCHANGED serviceVars

\* the tail of generate_feedback_events: feedback_events is candidates, sorted
SortCandidates ==
    /\ pc = "sort"
    /\ candidates' = SortByTime(candidates)
    /\ pc' = "done"
    /\ UNCHANGED <<segments, mergeVars, args, outputs, last_sent_at, events, pos,
                   focusVars, returnVars, anomalyVars>>
    /\ UNCHANGED serviceVars

----------------------------------------------------------------------------
(* Timelines the detectors are run on *)

\* fmt_hhmm of test_functions/test_trigger.py
fmt_hhmm(mins) == << mins \div 60, mins % 60 >>

\* a block is a list of <<activity, minutes>>
W(d) == << << "Coding", d >> >>
N(d) == << << "Video", d >> >>

\* k segments of d minutes, work and non-work in turn, work first
Alternating(k, d) ==
    [j \in 1..k |-> << IF j % 2 = 1 THEN "Coding" ELSE "Video", d >>]

RECURSIVE Flatten(_)
Flatten(blocks) ==
    IF blocks = << >> THEN << >> ELSE Head(blocks) \o Flatten(Tail(blocks))

RECURSIVE EndOf(_, _, _)
\* the minute at which the k-th of the pairs ends, the first starting at t0
EndOf(pairs, k, t0) == IF k = 0 THEN t0 ELSE EndOf(pairs, k - 1, t0) + pairs[k][2]

\* the timeline of contiguous segments made of the pairs, from minute t0 on
Timeline(pairs, t0) ==
    [k \in 1..Len(pairs) |->
        [ segment_id |-> k,
          start_time_local |-> fmt_hhmm(EndOf(pairs, k - 1, t0)),
          end_time_local |-> fmt_hhmm(EndOf(pairs, k, t0)),
          duration_minutes |-> pairs[k][2],
          activity |-> pairs[k][1] ]]

MaxBlocks == 4

DayStart == 480

Timelines(blocks) ==
    { Timeline(Flatten(bs), DayStart) :
        bs \in UNION { [1..n -> blocks] : n \in 0..MaxBlocks } }

DetectorBlocks == { W(d) : d \in {3, 5, 15, 25, 40} } \cup { N(d) : d \in {3, 5, 15, 25, 40} }

AnomalyBlocks == { W(5), N(5), W(30), N(30), Alternating(6, 5) }

PipelineBlocks == { W(15), W(40), N(5), N(45), Alternating(12, 10) }

MergeIdle ==
    /\ cfg = [ capture_interval_minutes |-> 15, idle_gap_minutes |-> 20,
               idle_similarity_threshold |-> 985, idle_margin_minutes |-> 5 ]
    /\ frames = << >>
    /\ inferred_interval = 0
    /\ initial = << >>
    /\ idle_intervals = << >>
    /\ all_segments = << >>

----------------------------------------------------------------------------
(* Specifications of the detectors *)

\* generate_feedback_events(day_timeline)
InitEvents ==
    /\ segments \in Timelines(PipelineBlocks)
    /\ pc = "generate"
    /\ MergeIdle
    /\ TriggerInit(PipelineArgs)
    /\ ServiceIdle

NextEvents ==
    \/ GenerateStart
    \/ FirstWorkStep("focus")
    \/ FocusStep
    \/ DetectorReturn("focus", "return_to_work")
    \/ ReturnStep
    \/ DetectorReturn("return_to_work", "anomaly")
    \/ AnomalyStep
    \/ DetectorReturn("anomaly", "sort")
    \/ SortCandidates

SpecEvents == InitEvents /\ [][NextEvents]_vars

\* detect_focus_levels(segments, CooldownTracker(), thresholds=[15, 25, 40])
InitFocus ==
    /\ segments \in Timelines(DetectorBlocks)
    /\ pc = "focus"
    /\ MergeIdle
    /\ TriggerInit(PipelineArgs)
    /\ ServiceIdle

NextFocus == FocusStep \/ DetectorReturn("focus", "done")

SpecFocus == InitFocus /\ [][NextFocus]_vars

\* detect_return_to_work(segments, CooldownTracker(), min_offwork_minutes=5)
InitReturn ==
    /\ segments \in Timelines(DetectorBlocks)
    /\ pc = "return_to_work"
    /\ MergeIdle
    /\ TriggerInit(PipelineArgs)
    /\ ServiceIdle

NextReturn == ReturnStep \/ DetectorReturn("return_to_work", "done")

SpecReturn == InitReturn /\ [][NextReturn]_vars

\* detect_anomaly_switching(segments, CooldownTracker(), 60, 6)
InitAnomaly ==
    /\ segments \in Timelines(AnomalyBlocks)
    /\ pc = "anomaly"
    /\ MergeIdle
    /\ TriggerInit(HourArgs)
    /\ ServiceIdle

NextAnomaly == AnomalyStep \/ DetectorReturn("anomaly", "done")

SpecAnomaly == InitAnomaly /\ [][NextAnomaly]_vars

\* a CooldownTracker on which mark_sent is called
MaxMinute == 6

CooldownKeys == { "first_work", "return_to_work", "anomaly_switching" }

MarkSent ==
    /\ pc = "cooldown"
    /\ \E key \in CooldownKeys, now_min \in 0..MaxMinute :
          last_sent_at' = mark_sent(last_sent_at, key, now_min)
    /\ UNCHANGED <<pc, segments, mergeVars, args, outputs, candidates, events, pos,
                   focusVars, returnVars, anomalyVars>>
    /\ UNCHANGED serviceVars

InitCooldown ==
    /\ segments = << >>
    /\ pc = "cooldown"
    /\ MergeIdle
    /\ TriggerInit(PipelineArgs)
    /\ ServiceIdle

SpecCooldown == InitCooldown /\ [][MarkSent]_vars

----------------------------------------------------------------------------
(* Properties of the segmentation *)

Merged == pc = "merged" /\ frames # << >>

FirstFrameDt == frames[1].dt
LastEndDt == frames[Len(frames)].dt + Minutes(inferred_interval)

\* a list of entries with start_dt/end_dt tiles [from, to]: it starts at from,
\* each entry ends where the next starts, and the last ends at to
Tiles(list, from, to) ==
    /\ list # << >>
    /\ list[1].start_dt = from
    /\ \A i \in 1..(Len(list) - 1) : list[i].end_dt = list[i + 1].start_dt
    /\ list[Len(list)].end_dt = to

\* C1: for a non-empty day the provisional segments (before idle carving) are
\* contiguous: the first starts at the first frame's time, each ends where
\* the next starts, and the last ends at the last frame's time plus the
\* inferred interval.
C1_ProvisionalContiguous ==
    Merged => Tiles(initial, FirstFrameDt, LastEndDt)

C1_Witness == Merged /\ Len(initial) >= 3

C3_FinalGapless ==
    Merged =>
        /\ segments # << >>
        /\ segments[1].start_time_local = strftime(FirstFrameDt)
        /\ \A i \in 1..(Len(segments) - 1) :
              segments[i].end_time_local = segments[i + 1].start_time_local
        /\ segments[Len(segments)].end_time_local = strftime(LastEndDt)

IsDropped(seg) == DurationMinutes(seg.start_dt, seg.end_dt) <= 0

\* C3 amended: the carved fragments and the Idle segments, sorted, tile the
\* span exactly; the returned list is that list without the entries whose
\* rounded duration is <= 0, each of which is at most half a minute long, so
\* a gap of the returned timeline is made of dropped entries only.
C3_TilesBeforeDrop ==
    Merged =>
        /\ Tiles(all_segments, FirstFrameDt, LastEndDt)
        /\ \A i \in 1..Len(all_segments) :
              IF IsDropped(all_segments[i])
              THEN /\ all_segments[i].end_dt - all_segments[i].start_dt <= 1
                   /\ \A k \in 1..Len(segments) : segments[k].segment_id # i
              ELSE \E k \in 1..Len(segments) :
                      /\ segments[k].segment_id = i
                      /\ segments[k].start_time_local = strftime(all_segments[i].start_dt)
                      /\ segments[k].end_time_local = strftime(all_segments[i].end_dt)
        /\ \A k \in 1..Len(segments) : segments[k].segment_id \in 1..Len(all_segments)

C3_Witness ==
    /\ Merged
    /\ segments # << >>
    /\ segments[1].start_time_local # strftime(FirstFrameDt)
    /\ \E i \in 1..Len(all_segments) : IsDropped(all_segments[i])
    /\ \E i \in 1..Len(segments) : segments[i].activity = "Idle"

RECURSIVE SumDurations(_)
SumDurations(segs) ==
    IF segs = << >> THEN 0
    ELSE Head(segs).duration_minutes + SumDurations(Tail(segs))

\* the covered span, in half-minutes
SpanHalfMinutes == LastEndDt - FirstFrameDt

\* C4 as claimed: the durations add up to the covered span within one minute.
C4_SumWithinOneMinute ==
    Merged => Abs(2 * SumDurations(segments) - SpanHalfMinutes) <= 2

\* C4 amended: every entry of the sorted list is rounded on its own, so the
\* durations add up to the covered span within half a minute per entry (the
\* dropped ones counted).
C4_SumWithinHalfMinutePerEntry ==
    Merged => Abs(2 * SumDurations(segments) - SpanHalfMinutes) <= Len(all_segments)

C4_Witness ==
    /\ Merged
    /\ Abs(2 * SumDurations(segments) - SpanHalfMinutes) > 2
    /\ Len(segments) < Len(all_segments)

\* the adjacent pair (i, i+1) is far apart and unchanged
IdlePair(i) ==
    /\ frames[i + 1].dt - frames[i].dt >= Minutes(cfg.idle_gap_minutes)
    /\ frames[i].img >= 0 /\ frames[i + 1].img >= 0
    /\ (255 - Abs(frames[i].img - frames[i + 1].img)) * 1000
          >= cfg.idle_similarity_threshold * 255

\* the margin of the pair, in minutes: min(idle_margin_minutes, gap / 4) with
\* the quotient cut to an integer
PairMargin(i) ==
    LET gap == (frames[i + 1].dt - frames[i].dt) \div 2
    IN  IF cfg.idle_margin_minutes <= gap \div 4
        THEN cfg.idle_margin_minutes ELSE gap \div 4

\* frames at 08:00, 08:15 and 09:10, all (YouTube, Video), readable and
\* unchanged, under idle_gap_minutes = 20 and idle_margin_minutes = 5
C10_Scenario ==
    /\ Len(frames) = 3
    /\ frames[1].dt = Minutes(480)
    /\ frames[2].dt = Minutes(495)
    /\ frames[3].dt = Minutes(550)
    /\ \A i \in 1..3 : frames[i].activity = "Video" /\ frames[i].img >= 0
    /\ cfg.idle_gap_minutes = 20
    /\ cfg.idle_margin_minutes = 5

\* C10: for every adjacent pair a, b with gap >= idle_gap_minutes and
\* similarity >= idle_similarity_threshold the returned timeline holds an Idle
\* segment from a.time + margin to b.time - margin, and no other segment
\* overlaps that interval; frames at 08:00, 08:15, 09:10 of one bucket
\* (gap 20, margin 5) give 08:00-08:20, Idle 08:20-09:05, 09:05-...
C10_IdleCarved ==
    Merged =>
        /\ \A i \in 1..(Len(frames) - 1) :
              IdlePair(i) =>
                 LET istart == frames[i].dt + Minutes(PairMargin(i))
                     iend == frames[i + 1].dt - Minutes(PairMargin(i))
                 IN  /\ \E k \in 1..Len(segments) :
                           /\ segments[k].activity = "Idle"
                           /\ segments[k].dominant_surface = "Idle"
                           /\ segments[k].start_time_local = strftime(istart)
                           /\ segments[k].end_time_local = strftime(iend)
                           /\ 2 * segments[k].duration_minutes = iend - istart
                     /\ \A k \in 1..Len(segments) :
                           segments[k].activity # "Idle" =>
                              \/ parse_hhmm(segments[k].end_time_local)
                                    <= parse_hhmm(strftime(istart))
                              \/ parse_hhmm(segments[k].start_time_local)
                                    >= parse_hhmm(strftime(iend))
        /\ C10_Scenario =>
              /\ Len(segments) = 3
              /\ segments[1].start_time_local = <<8, 0>>
              /\ segments[1].end_time_local = <<8, 20>>
              /\ segments[1].activity = "Video"
              /\ segments[2].start_time_local = <<8, 20>>
              /\ segments[2].end_time_local = <<9, 5>>
              /\ segments[2].activity = "Idle"
              /\ segments[3].start_time_local = <<9, 5>>
              /\ segments[3].activity = "Video"

C10_Witness == Merged /\ C10_Scenario /\ Len(segments) = 3

----------------------------------------------------------------------------
(* Properties of the cooldown ledger and of the detectors *)

MaxCooldown == 3

\* C5: can_send on a key never marked is true; after mark_sent(k, t),
\* can_send(k, t2, c) is false for t <= t2 <= t + c - 1 and true from t + c
\* on, for every cooldown c >= 1; and marking k leaves the answer for every
\* other key as it was.
C5_CooldownContract ==
    \A k \in CooldownKeys, t \in 0..MaxMinute, c \in 1..MaxCooldown :
        /\ k \notin DOMAIN last_sent_at => can_send(last_sent_at, k, t, c)
        /\ LET after == mark_sent(last_sent_at, k, t)
           IN  /\ \A t2 \in t..(t + c - 1) : ~ can_send(after, k, t2, c)
               /\ \A t2 \in (t + c)..(t + c + MaxCooldown) : can_send(after, k, t2, c)
               /\ \A k2 \in CooldownKeys \ {k}, t2 \in 0..(MaxMinute + MaxCooldown) :
                     can_send(after, k2, t2, c) = can_send(last_sent_at, k2, t2, c)

\* a ledger with two keys marked and one never marked, one of the marked
\* keys refusing c - 1 minutes after its mark and allowing c minutes after
C5_Witness ==
    /\ Cardinality(DOMAIN last_sent_at) = 2
    /\ \E k \in DOMAIN last_sent_at :
          /\ last_sent_at[k] > 0
          /\ ~ can_send(last_sent_at, k, last_sent_at[k] + 1, 2)
          /\ can_send(last_sent_at, k, last_sent_at[k] + 2, 2)

\* the cooldown a detector enforces for the key of event e
EnforcedCooldown(e) ==
    CASE e.trigger_type = "focus" -> FocusCooldown
      [] e.trigger_type = "return_to_work" -> ReturnCooldown
      [] e.trigger_type = "anomaly" -> AnomalyCooldown
      [] OTHER -> FirstWorkCooldown

\* two events fired under one cooldown key
SameKey(e1, e2) ==
    /\ e1.trigger_type = e2.trigger_type
    /\ e1.trigger_type = "focus" => e1.level = e2.level

\* C6: in the list generate_feedback_events returns, two events of the same
\* cooldown key (focus of one level, return_to_work, anomaly) are at least
\* the enforced cooldown apart: 60, 60 and 180 minutes.
C6_SameKeyApart ==
    pc = "done" =>
        \A i, j \in DOMAIN candidates :
            (i < j /\ SameKey(candidates[i], candidates[j])) =>
                Abs(candidates[j].time_minute_of_day - candidates[i].time_minute_of_day)
                    >= EnforcedCooldown(candidates[i])

\* the returned list holds two events of the same key, both for a focus
\* level and for return_to_work
C6_Witness ==
    /\ pc = "done"
    /\ \E i, j \in DOMAIN candidates :
          /\ i < j
          /\ candidates[i].trigger_type = "focus"
          /\ SameKey(candidates[i], candidates[j])
    /\ \E i, j \in DOMAIN candidates :
          /\ i < j
          /\ candidates[i].trigger_type = "return_to_work"
          /\ SameKey(candidates[i], candidates[j])

\* two anomaly events in one returned list
C6_WitnessAnomaly ==
    /\ pc = "done"
    /\ \E i, j \in DOMAIN candidates :
          /\ i < j
          /\ candidates[i].trigger_type = "anomaly"
          /\ candidates[j].trigger_type = "anomaly"

RECURSIVE SumDurationMinutes(_)
SumDurationMinutes(segs) ==
    IF segs = << >> THEN 0
    ELSE Head(segs).duration_minutes + SumDurationMinutes(Tail(segs))

\* one chain of work segments totalling exactly 40 minutes
WorkChainOf40 ==
    /\ segments # << >>
    /\ \A k \in DOMAIN segments : infer_is_work(segments[k])
    /\ SumDurationMinutes(segments) = 40

\* C7: on one contiguous chain of work segments totalling exactly 40 minutes,
\* however split, detect_focus_levels with thresholds [15, 25, 40] and a new
\* tracker returns exactly three focus events: L1, L2, L3, in this order.
C7_ThreeLevelsOnce ==
    (pc = "done" /\ WorkChainOf40) =>
        /\ Len(candidates) = 3
        /\ \A n \in 1..3 :
              /\ candidates[n].trigger_type = "focus"
              /\ candidates[n].level = LevelNames[n]

\* a chain of 40 minutes in four segments, the three levels reached at three
\* different segments
C7_Witness ==
    /\ pc = "done"
    /\ WorkChainOf40
    /\ Len(segments) = 4
    /\ Len(candidates) = 3
    /\ candidates[1].time_minute_of_day < candidates[2].time_minute_of_day
    /\ candidates[2].time_minute_of_day < candidates[3].time_minute_of_day

RECURSIVE OffRunMinutes(_, _)
\* the minutes of the maximal run of non-work segments that ends with
\* segment k (0 when segment k is work or k = 0)
OffRunMinutes(segs, k) ==
    IF k = 0 \/ infer_is_work(segs[k]) THEN 0
    ELSE segs[k].duration_minutes + OffRunMinutes(segs, k - 1)

\* the return_to_work events returned for segment k
ReturnEventsAt(k) ==
    SelectSeq(candidates, LAMBDA e : e.event_id = << "return", segments[k].segment_id >>)

\* no return_to_work event returned for an earlier segment is less than the
\* cooldown before the start of segment k
ReturnCooldownAllows(k) ==
    \A n \in DOMAIN candidates :
        candidates[n].event_id[2] < segments[k].segment_id =>
            parse_hhmm(segments[k].start_time_local) - candidates[n].time_minute_of_day
                >= ReturnCooldown

\* four 15-minute segments: work, work, non-work, work
C8_Scenario ==
    segments = Timeline(W(15) \o W(15) \o N(15) \o W(15), DayStart)

\* C8: with a new tracker, detect_return_to_work returns an event for a work
\* segment exactly when the maximal run of non-work segments just before it
\* totals at least min_offwork_minutes and the cooldown allows; the event is
\* timed at the segment's start and cites the run's minutes.  Four 15-minute
\* segments work, work, non-work, work with min_offwork_minutes = 5 give one
\* event, at the start of segment 4, citing 15 minutes.
C8_ReturnExactlyWhen ==
    pc = "done" =>
        /\ \A k \in DOMAIN segments :
              LET due == /\ infer_is_work(segments[k])
                         /\ OffRunMinutes(segments, k - 1) >= args.min_offwork_minutes
                         /\ ReturnCooldownAllows(k)
              IN  /\ Len(ReturnEventsAt(k)) = IF due THEN 1 ELSE 0
                  /\ due =>
                        /\ ReturnEventsAt(k)[1].time_local = segments[k].start_time_local
                        /\ ReturnEventsAt(k)[1].message
                              = << "return", OffRunMinutes(segments, k - 1) >>
        /\ \A n \in DOMAIN candidates : candidates[n].trigger_type = "return_to_work"
        /\ C8_Scenario =>
              /\ Len(candidates) = 1
              /\ candidates[1].time_local = segments[4].start_time_local
              /\ candidates[1].message = << "return", 15 >>

\* the scenario has run to its end
C8_Witness ==
    /\ pc = "done"
    /\ C8_Scenario
    /\ Len(candidates) = 1

\* a run long enough whose event the cooldown refused, after one that fired
C8_WitnessRefused ==
    /\ pc = "done"
    /\ \E k \in DOMAIN segments :
          /\ infer_is_work(segments[k])
          /\ OffRunMinutes(segments, k - 1) >= args.min_offwork_minutes
          /\ ReturnEventsAt(k) = << >>
    /\ Len(candidates) >= 1

RECURSIVE WindowClose(_, _, _)
\* the first segment from k on whose end is window_minutes or more after
\* the start of segment from; 0 if the segments end before
WindowClose(segs, from, k) ==
    IF k > Len(segs) THEN 0
    ELSE IF parse_hhmm(segs[k].end_time_local) - parse_hhmm(segs[from].start_time_local)
               >= args.window_minutes
         THEN k
         ELSE WindowClose(segs, from, k + 1)

RECURSIVE WindowsFrom(_, _)
\* the windows <<first segment, closing segment>> of the scan, in order,
\* from segment from on; a window left open at the end is not listed
WindowsFrom(segs, from) ==
    IF from > Len(segs) \/ WindowClose(segs, from, from) = 0 THEN << >>
    ELSE << << from, WindowClose(segs, from, from) >> >>
            \o WindowsFrom(segs, WindowClose(segs, from, from) + 1)

\* the work/non-work flips between consecutive segments of window w
Flips(segs, w) ==
    Cardinality({ k \in (w[1] + 1)..w[2] :
                    infer_is_work(segs[k]) # infer_is_work(segs[k - 1]) })

\* the anomaly events returned for segment k
AnomalyEventsAt(k) ==
    SelectSeq(candidates, LAMBDA e : e.event_id = << "anomaly", segments[k].segment_id >>)

\* no anomaly event returned for an earlier segment is less than the
\* cooldown before the end of segment k
AnomalyCooldownAllows(k) ==
    \A n \in DOMAIN candidates :
        candidates[n].event_id[2] < segments[k].segment_id =>
            parse_hhmm(segments[k].end_time_local) - candidates[n].time_minute_of_day
                >= AnomalyCooldown

\* the scan has just closed a window
JustClosed ==
    /\ pc = "anomaly"
    /\ \E n \in DOMAIN WindowsFrom(segments, 1) : WindowsFrom(segments, 1)[n][2] = pos - 1

----------------------------------------------------------------------------
(* The whole pipeline, run twice on the same day *)

MaxPipelineFrames == 2

\* build_feedback_events: the timeline build_timeline wrote is read back and
\* handed to generate_feedback_events
Handoff ==
    /\ pc = "merged"
    /\ pc' = "generate"
    /\ UNCHANGED <<segments, mergeVars, triggerVars>>
    /\ UNCHANGED serviceVars

\* the run is over: what it returned is kept, and the same functions are
\* called again on the same frames and configuration; whatever the first
\* run left in memory is still there
RunAgain ==
    /\ pc = "done"
    /\ outputs = << >>
    /\ outputs' = << [ timeline_segments |-> segments,
                      capture_interval_minutes |-> inferred_interval,
                      feedback_events |-> candidates ] >>
    /\ pc' = "load"
    /\ UNCHANGED <<segments, mergeVars, args, last_sent_at, candidates, events,
                   pos, focusVars, returnVars, anomalyVars>>
    /\ UNCHANGED serviceVars

NextPipeline ==
    \/ (outputs = << >> /\ Len(frames) < MaxPipelineFrames /\ AppendFrame)
    \/ Merge
    \/ Handoff
    \/ GenerateStart
    \/ FirstWorkStep("focus")
    \/ FocusStep
    \/ DetectorReturn("focus", "return_to_work")
    \/ ReturnStep
    \/ DetectorReturn("return_to_work", "anomaly")
    \/ AnomalyStep
    \/ DetectorReturn("anomaly", "sort")
    \/ SortCandidates
    \/ RunAgain

SpecPipeline == InitMerge /\ [][NextPipeline]_vars

\* C11: a second run on the same frames and configuration returns the same
\* timeline segments and interval as the first, and the same feedback
\* events, messages included; nothing the first run left behind (ledger,
\* detector variables) shows in the second.
C11_SecondRunIdentical ==
    outputs # << >> =>
        /\ pc \notin {"load"} =>
              /\ segments = outputs[1].timeline_segments
              /\ inferred_interval = outputs[1].capture_interval_minutes
        /\ pc = "done" => candidates = outputs[1].feedback_events

\* the second run is over; it returned three events or more, one of them a
\* focus event with a chosen message, and the first run had left a ledger
C11_Witness ==
    /\ pc = "done"
    /\ outputs # << >>
    /\ Len(candidates) >= 3
    /\ \E n \in DOMAIN candidates :
          /\ candidates[n].trigger_type = "focus"
          /\ candidates[n].message # << >>
    /\ \E n \in DOMAIN candidates : candidates[n].trigger_type = "return_to_work"

\* C14: _merge_frames_into_segments on no frames returns no segment, and
\* generate_feedback_events on no segment returns no event; both run to
\* their end.
C14_EmptyInEmptyOut ==
    /\ (pc # "load" /\ frames = << >>) => segments = << >>
    /\ (pc = "done" /\ segments = << >>) => candidates = << >>

\* a day without frames went through both stages
C14_Witness ==
    /\ pc = "done"
    /\ frames = << >>
    /\ segments = << >>
    /\ candidates = << >>

----------------------------------------------------------------------------
(* Segmentation under configurations other than the defaults *)

MaxWideFrames == 3

\* AppConfig holds whatever it is constructed with: fallback intervals of
\* any sign, similarity thresholds from 0 to 1 (per mille)
WideConfigs ==
    [ capture_interval_minutes : {-5, 0, 1, 30}, idle_gap_minutes : {20},
      idle_similarity_threshold : {985}, idle_margin_minutes : {5} ]
    \cup
    [ capture_interval_minutes : {15}, idle_gap_minutes : {20},
      idle_similarity_threshold : {0, 1000}, idle_margin_minutes : {5} ]

InitWide ==
    /\ cfg \in WideConfigs
    /\ frames = << >>
    /\ pc = "load"
    /\ inferred_interval = 0
    /\ initial = << >>
    /\ idle_intervals = << >>
    /\ all_segments = << >>
    /\ segments = << >>
    /\ TriggerInit(PipelineArgs)
    /\ ServiceIdle

NextWide == (Len(frames) < MaxWideFrames /\ AppendFrame) \/ Merge

SpecWide == InitWide /\ [][NextWide]_vars

\* C12 as stated: a day of one frame gives one segment, starting at the
\* frame's time, whose duration_minutes is the configured fallback interval,
\* whatever the fallback.
C12_SingleFrameFallback ==
    (Merged /\ Len(frames) = 1) =>
        /\ Len(segments) = 1
        /\ segments[1].start_time_local = strftime(frames[1].dt)
        /\ segments[1].duration_minutes = cfg.capture_interval_minutes

\* C12, amended: a day of one frame gives one segment, starting at the
\* frame's time, whose duration_minutes is max(1, fallback): the fallback
\* when it is 1 or more, and 1 otherwise.
C12_SingleFrameClamped ==
    (Merged /\ Len(frames) = 1) =>
        /\ Len(segments) = 1
        /\ segments[1].start_time_local = strftime(frames[1].dt)
        /\ segments[1].duration_minutes = Max(1, cfg.capture_interval_minutes)
        /\ inferred_interval = Max(1, cfg.capture_interval_minutes)

\* a day of one frame merged under a fallback of 30 minutes
C12_Witness ==
    /\ Merged
    /\ Len(frames) = 1
    /\ cfg.capture_interval_minutes = 30
    /\ Len(segments) = 1
    /\ segments[1].duration_minutes = 30

\* one image of the pair i, i + 1 cannot be read
UnreadablePair(i) == frames[i].img < 0 \/ frames[i + 1].img < 0

\* an idle interval was made of the pair i, i + 1
IdleMadeOf(i) ==
    \E k \in DOMAIN idle_intervals :
        /\ idle_intervals[k].istart >= frames[i].dt
        /\ idle_intervals[k].iend <= frames[i + 1].dt

\* C15 as stated: an adjacent pair with an unreadable image never gives an
\* Idle segment, whatever its gap and whatever idle_similarity_threshold.
C15_UnreadableNeverIdle ==
    Merged =>
        \A i \in 1..(Len(frames) - 1) :
            UnreadablePair(i) =>
                /\ ~ IdleMadeOf(i)
                /\ \A k \in DOMAIN segments :
                      segments[k].activity = "Idle" =>
                          \/ parse_hhmm(segments[k].end_time_local)
                                <= frames[i].dt \div 2
                          \/ parse_hhmm(segments[k].start_time_local)
                                >= frames[i + 1].dt \div 2

\* what holds in the code: such a pair gives no Idle segment under a
\* threshold above 0
UnreadableNotIdleAboveZero ==
    (Merged /\ cfg.idle_similarity_threshold > 0) =>
        \A i \in 1..(Len(frames) - 1) : UnreadablePair(i) => ~ IdleMadeOf(i)

\* a far-apart pair with an unreadable image under a threshold of 0, merged
C15_Witness ==
    /\ Merged
    /\ cfg.idle_similarity_threshold = 0
    /\ \E i \in 1..(Len(frames) - 1) :
          /\ UnreadablePair(i)
          /\ frames[i + 1].dt - frames[i].dt >= Minutes(cfg.idle_gap_minutes)
          /\ IdleMadeOf(i)

----------------------------------------------------------------------------
(* The detectors called with arguments other than those of                 *)
(* generate_feedback_events                                                *)

ArgBlocks == { W(15), W(25), N(5), Alternating(6, 5) }

\* thresholds: empty, the pipeline's, decreasing, of four levels;
\* window_minutes: none, an hour
ArgSets ==
    [ thresholds : { << >>, << 15, 25, 40 >>, << 40, 15 >>, << 5, 15, 25, 40 >> },
      min_offwork_minutes : {5},
      window_minutes : {0, 60},
      switch_threshold : {6} ]

\* one detector is called, with a new tracker
InitArgs ==
    /\ segments \in Timelines(ArgBlocks)
    /\ pc \in {"first_work", "focus", "return_to_work", "anomaly"}
    /\ MergeIdle
    /\ \E a \in ArgSets : TriggerInit(a)
    /\ ServiceIdle

NextArgs ==
    \/ FirstWorkStep("done")
    \/ FocusStep
    \/ DetectorReturn("focus", "done")
    \/ ReturnStep
    \/ DetectorReturn("return_to_work", "done")
    \/ AnomalyStep
    \/ DetectorReturn("anomaly", "done")

SpecArgs == InitArgs /\ [][NextArgs]_vars

\* an empty or not strictly increasing list of focus thresholds
BadThresholds(ths) ==
    \/ ths = << >>
    \/ \E n \in 1..(Len(ths) - 1) : ths[n] >= ths[n + 1]

\* a window of no minutes or fewer
BadWindow(w) == w <= 0

\* C13 as stated: with an empty or non-monotonic threshold list
\* detect_focus_levels scans no segment, with a non-positive window
\* detect_anomaly_switching scans no segment: the configuration is refused
\* before the first pass of the loop.
C13_MalformedRejected ==
    /\ (pc = "focus" /\ BadThresholds(args.thresholds)) => pos = 1
    /\ (pc = "anomaly" /\ BadWindow(args.window_minutes)) => pos = 1

\* detect_focus_levels has scanned a whole timeline under decreasing
\* thresholds and returned events, none of them refused
C13_Witness ==
    /\ pc = "done"
    /\ args.thresholds = << 40, 15 >>
    /\ Len(segments) >= 2
    /\ candidates # << >>
    /\ candidates[1].trigger_type = "focus"

\* detect_anomaly_switching has scanned a timeline under a window of 0
C13_WitnessWindow ==
    /\ pc = "anomaly"
    /\ BadWindow(args.window_minutes)
    /\ pos > Len(segments)
    /\ Len(segments) >= 2

\* C19 as stated: every event a detector emits has trigger_type first_work,
\* focus, return_to_work or anomaly and level L1, L2 or L3, whatever the
\* timeline and the thresholds.
C19_TypesAndLevels ==
    \A e \in { events[n] : n \in DOMAIN events } \cup
             { candidates[n] : n \in DOMAIN candidates } :
        /\ e.trigger_type \in {"first_work", "focus", "return_to_work", "anomaly"}
        /\ e.level \in {"L1", "L2", "L3"}

\* what holds in the code: the trigger types, and the levels when the list
\* has three thresholds or fewer
TypesAndLevelsUpToThree ==
    \A e \in { events[n] : n \in DOMAIN events } \cup
             { candidates[n] : n \in DOMAIN candidates } :
        /\ e.trigger_type \in {"first_work", "focus", "return_to_work", "anomaly"}
        /\ Len(args.thresholds) <= 3 => e.level \in {"L1", "L2", "L3"}

\* detect_focus_levels returned an event of level L4, with no message
C19_Witness ==
    /\ pc = "done"
    /\ \E n \in DOMAIN candidates :
          /\ candidates[n].trigger_type = "focus"
          /\ candidates[n].level = "L4"
          /\ candidates[n].message = << >>

----------------------------------------------------------------------------
(* Segment ids, the order of the events, first_work, focus crossings *)

\* C16 as stated: the k-th segment of the returned timeline has id number
\* k, none skipped or repeated, also when entries were dropped.
C16_SequentialIds ==
    Merged => \A k \in DOMAIN segments : segments[k].segment_id = k

\* what holds in the code: the id is the entry's position in the sorted list
\* before the drop, so the ids ascend, and they are 1, 2, ... when no entry
\* was dropped
IdsArePositionsBeforeDrop ==
    Merged =>
        /\ \A k \in DOMAIN segments :
              /\ segments[k].segment_id \in DOMAIN all_segments
              /\ segments[k].start_time_local
                    = strftime(all_segments[segments[k].segment_id].start_dt)
        /\ \A k \in 1..(Len(segments) - 1) :
              segments[k].segment_id < segments[k + 1].segment_id
        /\ Len(segments) = Len(all_segments) =>
              \A k \in DOMAIN segments : segments[k].segment_id = k

\* a returned timeline whose first segment is numbered 3
C16_Witness ==
    /\ Merged
    /\ Len(segments) >= 2
    /\ segments[1].segment_id = 3
    /\ Len(all_segments) > Len(segments)

\* the place of a detector in generate_feedback_events
DetectorRank(e) ==
    CASE e.trigger_type = "first_work" -> 1
      [] e.trigger_type = "focus" -> 2
      [] e.trigger_type = "return_to_work" -> 3
      [] OTHER -> 4

\* the number n of level "Ln"
LevelNumber(e) == CHOOSE n \in DOMAIN LevelNames : LevelNames[n] = e.level

\* C17: the list generate_feedback_events returns is in non-decreasing
\* time_minute_of_day, and events of one minute are in the order the
\* detectors gave them: first_work, focus, return_to_work, anomaly, the
\* focus events of one segment in ascending level.
C17_SortedStable ==
    pc = "done" =>
        \A i, j \in DOMAIN candidates :
            i < j =>
                /\ candidates[i].time_minute_of_day <= candidates[j].time_minute_of_day
                /\ candidates[i].time_minute_of_day = candidates[j].time_minute_of_day =>
                      /\ DetectorRank(candidates[i]) <= DetectorRank(candidates[j])
                      /\ ( /\ candidates[i].trigger_type = "focus"
                           /\ candidates[j].trigger_type = "focus"
                           /\ candidates[i].event_id[2] = candidates[j].event_id[2] )
                         => LevelNumber(candidates[i]) < LevelNumber(candidates[j])

\* a returned list with a first_work and a return_to_work event of one
\* minute, and three focus events of one minute
C17_Witness ==
    /\ pc = "done"
    /\ \E i, j \in DOMAIN candidates :
          /\ candidates[i].trigger_type = "first_work"
          /\ candidates[j].trigger_type = "return_to_work"
          /\ candidates[i].time_minute_of_day = candidates[j].time_minute_of_day
    /\ \E i \in DOMAIN candidates :
          /\ i + 2 \in DOMAIN candidates
          /\ candidates[i].trigger_type = "focus"
          /\ candidates[i + 2].trigger_type = "focus"
          /\ candidates[i].time_minute_of_day = candidates[i + 2].time_minute_of_day

\* detect_first_work(segments, CooldownTracker())
InitFirstWork ==
    /\ segments \in Timelines(DetectorBlocks)
    /\ pc = "first_work"
    /\ MergeIdle
    /\ TriggerInit(PipelineArgs)
    /\ ServiceIdle

NextFirstWork == FirstWorkStep("done")

SpecFirstWork == InitFirstWork /\ [][NextFirstWork]_vars

\* the work segments of the timeline, by index
WorkIndices == { k \in DOMAIN segments : infer_is_work(segments[k]) }

\* the earliest work segment
FirstWorkIndex == CHOOSE k \in WorkIndices : \A m \in WorkIndices : k <= m

\* C18: detect_first_work returns at most one event; with a new tracker it
\* returns one exactly when the timeline has a work segment, timed at the
\* start of the earliest work segment and citing that segment's id alone;
\* no later work segment gives an event.
C18_FirstWorkOnly ==
    /\ Len(candidates) <= 1
    /\ pc = "done" =>
          /\ (Len(candidates) = 1) <=> (WorkIndices # {})
          /\ Len(candidates) = 1 =>
                LET seg == segments[FirstWorkIndex]
                    e == candidates[1]
                IN  /\ e.trigger_type = "first_work"
                    /\ e.event_id = << "firstwork", seg.segment_id >>
                    /\ e.time_local = seg.start_time_local
                    /\ e.time_minute_of_day = parse_hhmm(seg.start_time_local)
                    /\ e.evidence_segment_ids = << seg.segment_id >>

\* a timeline of two work segments or more, the earliest not the first
\* segment, gave its one event
C18_Witness ==
    /\ pc = "done"
    /\ Len(candidates) = 1
    /\ Cardinality(WorkIndices) >= 2
    /\ FirstWorkIndex >= 2

RECURSIVE ChainMinutes(_, _)
\* the consecutive-work counter after segment k: the minutes of the run of
\* work segments that ends with segment k (0 when k is not work or k = 0)
ChainMinutes(segs, k) ==
    IF k = 0 \/ ~ infer_is_work(segs[k]) THEN 0
    ELSE segs[k].duration_minutes + ChainMinutes(segs, k - 1)

\* segment k is where its chain's counter crosses th: the first segment of
\* the chain at which the counter is th or more
CrossesAt(segs, k, th) ==
    /\ ChainMinutes(segs, k) >= th
    /\ ChainMinutes(segs, k - 1) < th

\* the index of the threshold of focus event e, and of its segment
ThresholdOf(e) == args.thresholds[LevelNumber(e)]
SegmentIndexOf(e) == CHOOSE k \in DOMAIN segments : segments[k].segment_id = e.event_id[2]

\* C20 as stated: every focus event of level i is emitted at the end of the
\* segment at which the chain's counter crosses threshold i, never at a
\* later segment of the chain.
C20_EmittedAtCrossing ==
    pc = "done" =>
        \A n \in DOMAIN candidates :
            LET e == candidates[n]
                k == SegmentIndexOf(e)
            IN  /\ e.time_local = segments[k].end_time_local
                /\ CrossesAt(segments, k, ThresholdOf(e))

\* what holds in the code: an event is emitted at the end of a work segment
\* at which the counter is at or above the threshold
EmittedAtOrAfterCrossing ==
    pc = "done" =>
        \A n \in DOMAIN candidates :
            LET e == candidates[n]
                k == SegmentIndexOf(e)
            IN  /\ e.time_local = segments[k].end_time_local
                /\ ChainMinutes(segments, k) >= ThresholdOf(e)

\* a focus event emitted at a segment after the one where its chain crossed
\* the threshold
C20_Witness ==
    /\ pc = "done"
    /\ \E n \in DOMAIN candidates :
          LET e == candidates[n]
              k == SegmentIndexOf(e)
          IN  /\ ChainMinutes(segments, k) >= ThresholdOf(e)
              /\ ChainMinutes(segments, k - 1) >= ThresholdOf(e)

----------------------------------------------------------------------------
(* The detectors' running state *)

\* the focus events emitted so far, returned or not yet
FocusEmitted == candidates \o events

\* segments j..k are all work: j and k are in one chain
SameChain(j, k) == \A m \in j..k : infer_is_work(segments[m])

\* the levels of the events emitted in the chain that segment k is in
LevelsEmittedInChainOf(k) ==
    { FocusEmitted[n].level : n \in { m \in DOMAIN FocusEmitted :
          /\ SegmentIndexOf(FocusEmitted[m]) <= k
          /\ SameChain(SegmentIndexOf(FocusEmitted[m]), k) } }

\* C21: in detect_focus_levels, after a non-work segment the counter is 0
\* and the level-set is empty; after any segment the counter is the summed
\* duration of the work segments since the last non-work segment and the
\* level-set holds the levels emitted in the current chain; and no level is
\* emitted twice within one chain.
C21_CounterAndLevelSet ==
    /\ (pc = "focus" /\ pos > 1) =>
          /\ consecutive = ChainMinutes(segments, pos - 1)
          /\ emitted = LevelsEmittedInChainOf(pos - 1)
          /\ ~ infer_is_work(segments[pos - 1]) =>
                (consecutive = 0 /\ emitted = {} /\ chain_ids = << >>)
    /\ \A i, j \in DOMAIN FocusEmitted :
          (i < j /\ FocusEmitted[i].level = FocusEmitted[j].level) =>
              ~ SameChain(SegmentIndexOf(FocusEmitted[i]), SegmentIndexOf(FocusEmitted[j]))

\* a level emitted in two chains, the first chain going on for a segment
\* after the emission without emitting it again
C21_Witness ==
    /\ pc = "done"
    /\ \E i, j \in DOMAIN candidates :
          /\ i < j
          /\ candidates[i].level = candidates[j].level
          /\ SegmentIndexOf(candidates[i]) + 1 \in DOMAIN segments
          /\ infer_is_work(segments[SegmentIndexOf(candidates[i]) + 1])

\* C22 as stated: a return_to_work event is emitted only at a work segment
\* that has, earlier in the day, a work segment followed by the off-work
\* stretch; the first work segment of the day gives none.
C22_ReturnOnlyAfterWork ==
    pc = "done" =>
        \A n \in DOMAIN candidates :
            LET k == SegmentIndexOf(candidates[n])
            IN  /\ infer_is_work(segments[k])
                /\ \E j \in 1..(k - 2) :
                      /\ infer_is_work(segments[j])
                      /\ \A m \in (j + 1)..(k - 1) : ~ infer_is_work(segments[m])
                /\ k # FirstWorkIndex

\* what holds in the code: an event is emitted only at a work segment that
\* comes directly after a non-work segment, work before it or not
ReturnOnlyAfterOffStretch ==
    pc = "done" =>
        \A n \in DOMAIN candidates :
            LET k == SegmentIndexOf(candidates[n])
            IN  /\ infer_is_work(segments[k])
                /\ k > 1
                /\ ~ infer_is_work(segments[k - 1])
                /\ OffRunMinutes(segments, k - 1) >= args.min_offwork_minutes

\* detect_return_to_work returned an event for the first work segment of
\* the day, which only non-work segments precede
C22_Witness ==
    /\ pc = "done"
    /\ WorkIndices # {}
    /\ \E n \in DOMAIN candidates :
          /\ candidates[n].trigger_type = "return_to_work"
          /\ SegmentIndexOf(candidates[n]) = FirstWorkIndex

\* timelines on which a return is refused and a later one is due: a block is
\* some minutes away and a work segment, or one segment
OffWorkBlocks ==
    { N(3) \o W(15), N(5) \o W(15), N(25) \o W(5), N(15), W(15) }

\* detect_return_to_work(segments, CooldownTracker(), min_offwork_minutes=5)
InitOffWork ==
    /\ segments \in Timelines(OffWorkBlocks)
    /\ pc = "return_to_work"
    /\ MergeIdle
    /\ TriggerInit(PipelineArgs)
    /\ ServiceIdle

SpecOffWork == InitOffWork /\ [][NextReturn]_vars

\* the return_to_work events emitted so far, returned or not yet
ReturnEmitted == candidates \o events

RECURSIVE OffRunIds(_, _)
\* the ids of the maximal run of non-work segments that ends with segment k
OffRunIds(segs, k) ==
    IF k = 0 \/ infer_is_work(segs[k]) THEN << >>
    ELSE Append(OffRunIds(segs, k - 1), segs[k].segment_id)

\* C23: in detect_return_to_work the minutes, ids and was-off flag are reset
\* at every work segment, event or no event: after any segment they describe
\* the run of non-work segments that ends there, and every event cites the
\* minutes and ids of the run just before its segment and of nothing
\* earlier, also after a return the minimum or the cooldown refused.
C23_OffWorkResetAtWork ==
    /\ (pc = "return_to_work" /\ pos > 1) =>
          /\ off_min = OffRunMinutes(segments, pos - 1)
          /\ off_ids = OffRunIds(segments, pos - 1)
          /\ was_off = ~ infer_is_work(segments[pos - 1])
          /\ infer_is_work(segments[pos - 1]) =>
                (off_min = 0 /\ off_ids = << >> /\ ~ was_off)
    /\ \A n \in DOMAIN ReturnEmitted :
          LET e == ReturnEmitted[n]
              k == SegmentIndexOf(e)
              run == OffRunIds(segments, k - 1)
          IN  /\ e.message = << "return", OffRunMinutes(segments, k - 1) >>
              /\ Len(e.evidence_segment_ids) <= Len(run) + 1
              /\ \A m \in DOMAIN e.evidence_segment_ids :
                    \/ e.evidence_segment_ids[m] = segments[k].segment_id
                    \/ \E r \in DOMAIN run : run[r] = e.evidence_segment_ids[m]

\* segment j is a work segment after time away whose return was refused
Refused(j) ==
    /\ infer_is_work(segments[j])
    /\ OffRunMinutes(segments, j - 1) > 0
    /\ \A n \in DOMAIN candidates : SegmentIndexOf(candidates[n]) # j

\* an event was returned for a segment after two refused returns, one
\* refused by the minimum and one by the cooldown
C23_Witness ==
    /\ pc = "done"
    /\ \E n \in DOMAIN candidates :
          LET k == SegmentIndexOf(candidates[n])
          IN  /\ \E j \in 1..(k - 1) :
                    /\ Refused(j)
                    /\ OffRunMinutes(segments, j - 1) < args.min_offwork_minutes
              /\ \E j \in 1..(k - 1) :
                    /\ Refused(j)
                    /\ OffRunMinutes(segments, j - 1) >= args.min_offwork_minutes

\* the anomaly events emitted so far, returned or not yet
AnomalyEmitted == candidates \o events

\* the closing segments of the windows, among segments 1..k
ClosesUpTo(k) ==
    { WindowsFrom(segments, 1)[n][2] : n \in DOMAIN WindowsFrom(segments, 1) } \cap 1..k

\* the first segment of the window that is open after segment k: the one
\* after the last closing segment (k + 1 when segment k closes a window)
OpenFrom(k) ==
    IF ClosesUpTo(k) = {} THEN 1
    ELSE (CHOOSE c \in ClosesUpTo(k) : \A d \in ClosesUpTo(k) : d <= c) + 1

\* C24: detect_anomaly_switching cuts the segments into consecutive windows
\* without overlap, a window closing at the first segment whose end is
\* window_minutes or more after the start of the window's first segment;
\* after any segment the id list, window start and switch counter describe
\* the segments of the open window only, and they are reset after a close,
\* event or no event; an event is emitted only at a closing segment, one at
\* most, so a last window that never reaches window_minutes emits nothing.
C24_WindowsPartition ==
    /\ (pc = "anomaly" /\ pos > 1) =>
          LET from == OpenFrom(pos - 1)
          IN  /\ window_ids = [m \in 1..(pos - from) |-> segments[from + m - 1].segment_id]
              /\ from = pos =>
                    (switches = 0 /\ prev = << >> /\ window_start = << >>)
              /\ from < pos =>
                    /\ window_start = << parse_hhmm(segments[from].start_time_local) >>
                    /\ switches = Flips(segments, << from, pos - 1 >>)
                    /\ prev = << infer_is_work(segments[pos - 1]) >>
    /\ \A n \in DOMAIN AnomalyEmitted :
          /\ SegmentIndexOf(AnomalyEmitted[n]) \in ClosesUpTo(Len(segments))
          /\ \A m \in DOMAIN AnomalyEmitted :
                m # n => AnomalyEmitted[m].event_id # AnomalyEmitted[n].event_id
    /\ \A n \in DOMAIN WindowsFrom(segments, 1) :
          /\ WindowsFrom(segments, 1)[n][1] = IF n = 1 THEN 1
                                              ELSE WindowsFrom(segments, 1)[n - 1][2] + 1
          /\ WindowsFrom(segments, 1)[n][1] <= WindowsFrom(segments, 1)[n][2]

\* a first window that fired, and after the last close a window of 6 flips
\* or more that the day ends before it reaches 60 minutes: it gave nothing
C24_Witness ==
    /\ pc = "done"
    /\ Len(candidates) = 1
    /\ SegmentIndexOf(candidates[1]) < OpenFrom(Len(segments))
    /\ OpenFrom(Len(segments)) < Len(segments)
    /\ Flips(segments, << OpenFrom(Len(segments)), Len(segments) >>) >= args.switch_threshold

\* the window <<first segment, closing segment>> that segment k closes
WindowClosedAt(k) ==
    WindowsFrom(segments, 1)[CHOOSE n \in DOMAIN WindowsFrom(segments, 1) :
                                 WindowsFrom(segments, 1)[n][2] = k]

\* the ids of the segments of window w, in order
WindowIds(w) == [m \in 1..(w[2] - w[1] + 1) |-> segments[w[1] + m - 1].segment_id]

\* the anomaly events of the list generate_feedback_events returns
AnomalyReturned == SelectSeq(candidates, LAMBDA e : e.trigger_type = "anomaly")

\* C25 as stated: the evidence_segment_ids of every anomaly event are the
\* ids of all the segments of the window it closes, in order, however many
\* segments the window holds.
C25_EvidenceIsWholeWindow ==
    pc = "done" =>
        \A n \in DOMAIN AnomalyReturned :
            AnomalyReturned[n].evidence_segment_ids
                = WindowIds(WindowClosedAt(SegmentIndexOf(AnomalyReturned[n])))

\* what holds in the code: the evidence is the last 12 ids of the window,
\* all of them when the window holds 12 segments or fewer
EvidenceIsLastTwelve ==
    pc = "done" =>
        \A n \in DOMAIN AnomalyReturned :
            AnomalyReturned[n].evidence_segment_ids
                = LastN(WindowIds(WindowClosedAt(SegmentIndexOf(AnomalyReturned[n]))), 12)

\* an anomaly event was returned for a window of 13 segments or more, and
\* it cites 12 of them
C25_Witness ==
    /\ pc = "done"
    /\ \E n \in DOMAIN AnomalyReturned :
          /\ Len(WindowIds(WindowClosedAt(SegmentIndexOf(AnomalyReturned[n])))) >= 13
          /\ Len(AnomalyReturned[n].evidence_segment_ids) = 12

----------------------------------------------------------------------------
(* Segments that carry an is_work flag *)

MaxFlagged == 2

FlagActivities == { "Coding", "Writing/Reading", "Video", "Idle", "coding" }

\* what a segment read from a timeline file may hold under "is_work": the
\* JSON values true, false, null, "false"
FlagValues == { "True", "False", "None", "'false'" }

\* a timeline entry, with the field is_work when flag is << v >>
Flagged(seg, flag) == IF flag = << >> THEN seg ELSE [is_work |-> flag[1]] @@ seg

\* contiguous 15-minute segments, each of any activity and with or without
\* a flag
FlaggedTimelines ==
    UNION { { [k \in 1..n |->
                  Flagged(Timeline([j \in 1..n |-> << acts[j], 15 >>], DayStart)[k],
                          flags[k])] :
                acts \in [1..n -> FlagActivities],
                flags \in [1..n -> {<< >>} \cup { << v >> : v \in FlagValues }] } :
            n \in 0..MaxFlagged }

\* detect_focus_levels(segments, CooldownTracker(), thresholds=[15, 25, 40])
InitFlags ==
    /\ segments \in FlaggedTimelines
    /\ pc = "focus"
    /\ MergeIdle
    /\ TriggerInit(PipelineArgs)
    /\ ServiceIdle

SpecFlags == InitFlags /\ [][NextFocus]_vars

\* the classification the flag alone gives: true is work, false is not, any
\* other value as Python reads it in a condition (null is false, a
\* non-empty string is true)
FlagSaysWork(v) ==
    CASE v = "True" -> TRUE
      [] v = "False" -> FALSE
      [] v = "None" -> FALSE
      [] OTHER -> TRUE

\* C26: a segment that carries is_work is work or non-work by the flag
\* alone, whatever its activity; a segment without the flag is work exactly
\* when its activity is "Coding" or "Writing/Reading", letter for letter, so
\* an Idle segment is non-work.  Read off detect_focus_levels: the counter
\* is above 0 after a segment exactly when the segment was taken as work.
C26_FlagThenActivity ==
    (pc = "focus" /\ pos > 1) =>
        LET seg == segments[pos - 1]
            taken_as_work == consecutive > 0
        IN  /\ "is_work" \in DOMAIN seg => (taken_as_work <=> FlagSaysWork(seg.is_work))
            /\ "is_work" \notin DOMAIN seg =>
                  (taken_as_work <=> seg.activity \in {"Coding", "Writing/Reading"})
            /\ ("is_work" \notin DOMAIN seg /\ seg.activity = "Idle") => ~ taken_as_work

\* a Video segment flagged true was taken as work and the Coding segment
\* flagged false after it was not
C26_Witness ==
    /\ pc = "focus"
    /\ pos = 3
    /\ segments[1].activity = "Video" /\ "is_work" \in DOMAIN segments[1]
    /\ segments[1].is_work = "True"
    /\ segments[2].activity = "Coding" /\ "is_work" \in DOMAIN segments[2]
    /\ segments[2].is_work = "False"
    /\ consecutive = 0
    /\ Len(events) = 1

----------------------------------------------------------------------------
(* Idle intervals and what the carving leaves *)

\* the idle intervals whose two margins, in half-minutes, are both m4 / 4
IntervalsWithMargin(i, m4) ==
    { k \in DOMAIN idle_intervals :
        /\ 4 * (idle_intervals[k].istart - frames[i].dt) = m4
        /\ 4 * (frames[i + 1].dt - idle_intervals[k].iend) = m4 }

\* C27 as stated: for every adjacent pair with gap g >= idle_gap_minutes and
\* similarity at or above the threshold, the idle interval is
\* [a.time + m, b.time - m] with m = min(idle_margin_minutes, g / 4), g / 4
\* being the exact quarter of the gap (8 * m half-minutes against the gap in
\* half-minutes).
C27_ExactQuarterMargin ==
    Merged =>
        \A i \in 1..(Len(frames) - 1) :
            IdlePair(i) =>
                IntervalsWithMargin(i, Min(8 * cfg.idle_margin_minutes,
                                           frames[i + 1].dt - frames[i].dt)) # {}

\* C27, amended: the margin is min(idle_margin_minutes, floor(g / 4)), a
\* whole number of minutes: the quarter of the gap is cut down to an
\* integer before the minimum is taken.
C27_WholeMinuteMargin ==
    Merged =>
        /\ \A i \in 1..(Len(frames) - 1) :
              IdlePair(i) =>
                  LET g == (frames[i + 1].dt - frames[i].dt) \div 2
                      m == IF cfg.idle_margin_minutes <= g \div 4
                           THEN cfg.idle_margin_minutes ELSE g \div 4
                  IN  IntervalsWithMargin(i, 8 * m) # {}
        /\ Len(idle_intervals) = Cardinality({ i \in 1..(Len(frames) - 1) : IdlePair(i) })

\* an idle interval was made of a pair whose gap is not a multiple of 4
\* minutes and whose quarter is below idle_margin_minutes
C27_Witness ==
    /\ Merged
    /\ \E i \in 1..(Len(frames) - 1) :
          /\ IdlePair(i)
          /\ (frames[i + 1].dt - frames[i].dt) % 8 # 0
          /\ frames[i + 1].dt - frames[i].dt < 8 * cfg.idle_margin_minutes
          /\ IdleMadeOf(i)

\* the Idle entries of the returned timeline, by index
IdleIndices == { k \in DOMAIN segments : segments[k].activity = "Idle" }

\* start and end of a returned entry, in half-minutes
StartOfEntry(seg) == Minutes(parse_hhmm(seg.start_time_local))
EndOfEntry(seg) == Minutes(parse_hhmm(seg.end_time_local))

\* the adjacent pairs of frames that entry k lies between
PairsAround(k) ==
    { i \in 1..(Len(frames) - 1) :
        /\ frames[i].dt <= StartOfEntry(segments[k])
        /\ EndOfEntry(segments[k]) <= frames[i + 1].dt }

\* C28: every Idle segment of the returned timeline lies between two
\* adjacent frames whose gap is idle_gap_minutes or more and whose
\* similarity is idle_similarity_threshold or more, in one run or across
\* two; no frame is timed strictly inside an Idle segment; two Idle
\* segments never overlap.
C28_IdleBetweenAdjacentFrames ==
    Merged =>
        /\ \A k \in IdleIndices :
              /\ segments[k].dominant_surface = "Idle"
              /\ \E i \in PairsAround(k) : IdlePair(i)
              /\ \A j \in DOMAIN frames :
                    ~ (StartOfEntry(segments[k]) < frames[j].dt /\ frames[j].dt < EndOfEntry(segments[k]))
        /\ \A k1, k2 \in IdleIndices :
              k1 < k2 => EndOfEntry(segments[k1]) <= StartOfEntry(segments[k2])

\* two Idle segments were returned, one between two frames of one run and
\* one between two frames of different buckets
C28_Witness ==
    /\ Merged
    /\ \E k1, k2 \in IdleIndices :
          /\ \E i \in PairsAround(k1) : frames[i].activity = frames[i + 1].activity
          /\ \E i \in PairsAround(k2) : frames[i].activity # frames[i + 1].activity

\* provisional segment p overlaps no idle interval
Untouched(p) ==
    \A n \in DOMAIN idle_intervals :
        idle_intervals[n].iend <= p.start_dt \/ idle_intervals[n].istart >= p.end_dt

\* a and b agree on every field but start and end
SameFields(a, b) ==
    /\ a.dominant_surface = b.dominant_surface
    /\ a.activity = b.activity
    /\ a.confidence = b.confidence
    /\ a.risk_flags = b.risk_flags
    /\ a.evidence_frames = b.evidence_frames

\* the returned timeline holds p with its start, end and fields
Returned(p) ==
    \E k \in DOMAIN segments :
        /\ segments[k].start_time_local = strftime(p.start_dt)
        /\ segments[k].end_time_local = strftime(p.end_dt)
        /\ SameFields(segments[k], p)

\* entry s of the carved list is provisional segment p or a remainder of
\* it: p's fields, within p, each bound p's own or the bound of a cut
RemainderOf(s, p) ==
    /\ SameFields(s, p)
    /\ \/ s.start_dt = p.start_dt
       \/ \E n \in DOMAIN idle_intervals :
             idle_intervals[n].iend = s.start_dt /\ s.start_dt > p.start_dt
    /\ \/ s.end_dt = p.end_dt
       \/ \E n \in DOMAIN idle_intervals :
             idle_intervals[n].istart = s.end_dt /\ s.end_dt < p.end_dt

\* every entry that is not Idle is a remainder of a provisional segment and
\* overlaps no idle interval
RemaindersKeepFields ==
    \A m \in DOMAIN all_segments :
        all_segments[m].activity # "Idle" =>
            /\ \E n \in DOMAIN initial : RemainderOf(all_segments[m], initial[n])
            /\ Untouched(all_segments[m])

\* C29 as stated: a provisional segment that overlaps no idle interval is in
\* the returned timeline with the same start, end and fields; every
\* remainder of a split segment keeps the original's fields and lies outside
\* the subtracted interval.
C29_OnlyBoundsChange ==
    Merged =>
        /\ \A n \in DOMAIN initial : Untouched(initial[n]) => Returned(initial[n])
        /\ RemaindersKeepFields

\* C29, amended: a provisional segment that overlaps no idle interval is in
\* the sorted list unchanged, and in the returned timeline with the same
\* start, end and fields unless its duration rounds to 0 minutes, in which
\* case the last loop drops it; the remainders as stated.
C29_OnlyBoundsChangeUnlessDropped ==
    Merged =>
        /\ \A n \in DOMAIN initial :
              Untouched(initial[n]) =>
                  /\ \E m \in DOMAIN all_segments : all_segments[m] = initial[n]
                  /\ initial[n].end_dt - initial[n].start_dt > 1 =>   \* over half a minute
                        Returned(initial[n])
        /\ RemaindersKeepFields

\* a day with a provisional segment no idle interval touches, returned as
\* it was, and one split in two remainders by an idle interval inside it
C29_Witness ==
    /\ Merged
    /\ \E n \in DOMAIN initial :
          /\ Untouched(initial[n])
          /\ Returned(initial[n])
    /\ \E n \in DOMAIN initial, m1, m2 \in DOMAIN all_segments :
          /\ m1 < m2
          /\ all_segments[m1].activity # "Idle"
          /\ RemainderOf(all_segments[m1], initial[n])
          /\ RemainderOf(all_segments[m2], initial[n])
          /\ all_segments[m1].start_dt = initial[n].start_dt
          /\ all_segments[m1].end_dt < initial[n].end_dt
          /\ all_segments[m2].start_dt > all_segments[m1].end_dt
          /\ all_segments[m2].end_dt = initial[n].end_dt

----------------------------------------------------------------------------
(* _infer_capture_interval_minutes on lists of timestamps of any kind *)

MaxTimes == 4

\* gaps between consecutive timestamps, in half-minutes: none (two files of
\* one second), half a minute and more, and one step back (a list out of
\* order)
IntervalGaps == {-2, 0, 1, 2, 3, 5, 8, 30}

\* the fallback the caller passes: cfg.capture_interval_minutes
Fallbacks == {-5, 0, 1, 15}

RECURSIVE TimesFrom(_, _)
\* the timestamps whose consecutive gaps are gaps, the first being t0
TimesFrom(gaps, t0) ==
    IF gaps = << >> THEN << t0 >>
    ELSE << t0 >> \o TimesFrom(Tail(gaps), t0 + Head(gaps))

InitInterval ==
    /\ cfg \in [ capture_interval_minutes : Fallbacks, idle_gap_minutes : {20},
                 idle_similarity_threshold : {985}, idle_margin_minutes : {5} ]
    /\ frames \in {<< >>} \cup
          UNION { { [i \in 1..(n + 1) |-> [dt |-> TimesFrom(gaps, Minutes(DayStart))[i]]] :
                      gaps \in [1..n -> IntervalGaps] } : n \in 0..(MaxTimes - 1) }
    /\ pc = "load"
    /\ inferred_interval = 0
    /\ initial = << >>
    /\ idle_intervals = << >>
    /\ all_segments = << >>
    /\ segments = << >>
    /\ TriggerInit(PipelineArgs)
    /\ ServiceIdle

\* inferred_interval = _infer_capture_interval_minutes(frame_times,
\* cfg.capture_interval_minutes)
InferInterval ==
    /\ pc = "load"
    /\ pc' = "inferred"
    /\ inferred_interval' =
          InferCaptureIntervalMinutes([i \in 1..Len(frames) |-> frames[i].dt],
                                      cfg.capture_interval_minutes)
    /\ UNCHANGED <<cfg, frames, initial, idle_intervals, all_segments, segments,
                   triggerVars>>
    /\ UNCHANGED serviceVars

SpecInterval == InitInterval /\ [][InferInterval]_vars

\* the places of the positive consecutive deltas, and the delta at place i
\* (half-minutes)
PositivePlaces ==
    { i \in 1..(Len(frames) - 1) : frames[i + 1].dt - frames[i].dt > 0 }
DeltaAt(i) == frames[i + 1].dt - frames[i].dt

\* the k-th smallest of the positive deltas, k = 1 for the smallest
KthSmallest(k) ==
    CHOOSE x \in { DeltaAt(i) : i \in PositivePlaces } :
        /\ Cardinality({ i \in PositivePlaces : DeltaAt(i) < x }) < k
        /\ k <= Cardinality({ i \in PositivePlaces : DeltaAt(i) <= x })

\* four times the statistical median of the positive deltas in minutes: a
\* delta of x half-minutes is x / 2 minutes
MedianTimes4 ==
    LET n == Cardinality(PositivePlaces)
    IN  IF n % 2 = 1 THEN 2 * KthSmallest((n + 1) \div 2)
        ELSE KthSmallest(n \div 2) + KthSmallest(n \div 2 + 1)

\* C30: _infer_capture_interval_minutes returns max(1, fallback) for fewer
\* than 2 timestamps, and for 2 or more max(1, r), r being an integer
\* nearest to the statistical median of the positive consecutive deltas in
\* minutes (the mean of the two middle deltas when their number is even);
\* the result is an integer of 1 or more on every list, also when all
\* timestamps are equal.
C30_MedianInterval ==
    pc = "inferred" =>
        /\ inferred_interval \in Nat /\ inferred_interval >= 1
        /\ Len(frames) < 2 =>
              inferred_interval = IF cfg.capture_interval_minutes >= 1
                                  THEN cfg.capture_interval_minutes ELSE 1
        /\ (Len(frames) >= 2 /\ PositivePlaces # {}) =>
              \E r \in 0..(MedianTimes4 \div 4 + 1) :
                  /\ 4 * r - MedianTimes4 <= 2
                  /\ MedianTimes4 - 4 * r <= 2
                  /\ inferred_interval = IF r >= 1 THEN r ELSE 1

\* four timestamps with an even number of positive deltas whose
\* two middle values differ and whose mean is halfway between two integers
C30_Witness ==
    /\ pc = "inferred"
    /\ Cardinality(PositivePlaces) = 2
    /\ Len(frames) = 4
    /\ KthSmallest(1) # KthSmallest(2)
    /\ MedianTimes4 % 4 = 2
    /\ MedianTimes4 > 4
    /\ inferred_interval > 1

\* timestamps all equal, under a fallback of 0
C30_WitnessEqual ==
    /\ pc = "inferred"
    /\ Len(frames) >= 2
    /\ PositivePlaces = {}
    /\ cfg.capture_interval_minutes = 0
    /\ inferred_interval = 1

----------------------------------------------------------------------------
(* Runs of frames and the frames a segment cites *)

\* buckets[i] of _merge_frames_into_segments: the key a run shares
BucketOf(x) == << x.dominant_surface, x.activity >>

RECURSIVE EvidenceOf(_)
\* the evidence_frames lists of a list of entries, one after the other
EvidenceOf(list) ==
    IF list = << >> THEN << >>
    ELSE Head(list).evidence_frames \o EvidenceOf(Tail(list))

\* the filenames of the input frames, in order
FrameIds == [i \in 1..Len(frames) |-> frames[i].filename]

\* C31: the provisional segments are the maximal runs of frames of one
\* bucket: no two adjacent provisional segments share a bucket, every frame a
\* segment cites has the segment's bucket, and the evidence_frames lists, one
\* after the other, are the input frame ids in order, each once.
C31_MaximalRuns ==
    Merged =>
        /\ \A i \in 1..(Len(initial) - 1) :
              BucketOf(initial[i]) # BucketOf(initial[i + 1])
        /\ \A i \in 1..Len(initial) :
              /\ initial[i].evidence_frames # << >>
              /\ \A k \in 1..Len(initial[i].evidence_frames) :
                    \E f \in 1..Len(frames) :
                        /\ frames[f].filename = initial[i].evidence_frames[k]
                        /\ BucketOf(frames[f]) = BucketOf(initial[i])
        /\ EvidenceOf(initial) = FrameIds

\* a day of two runs, one of them of two frames or more
C31_Witness ==
    /\ Merged
    /\ Len(initial) >= 2
    /\ \E i \in 1..Len(initial) : Len(initial[i].evidence_frames) >= 2
    /\ Len(frames) = MaxFrames

\* the entries of the returned timeline that cite the frame id
CitedBy(id) ==
    { k \in 1..Len(segments) :
        \E j \in 1..Len(segments[k].evidence_frames) :
            segments[k].evidence_frames[j] = id }

\* C32: in the returned timeline every input frame id is in the
\* evidence_frames of exactly one segment: none is listed by two segments and
\* none is lost, also when an idle interval splits a run or a fragment is
\* dropped.
C32_EachFrameInOneSegment ==
    Merged => \A f \in 1..Len(frames) : Cardinality(CitedBy(frames[f].filename)) = 1

\* what the carving keeps: an Idle entry cites no frame, and every other
\* returned entry cites all the frames of the run it is a remainder of
EvidenceIsWholeRun ==
    Merged =>
        \A k \in 1..Len(segments) :
            IF segments[k].activity = "Idle"
            THEN segments[k].evidence_frames = << >>
            ELSE \E i \in 1..Len(initial) :
                    /\ segments[k].evidence_frames = initial[i].evidence_frames
                    /\ BucketOf(segments[k]) = BucketOf(initial[i])

\* a day on which one frame is cited by two segments (its run was split by
\* an idle interval) and another by none (its run was dropped)
C32_Witness ==
    /\ Merged
    /\ idle_intervals # << >>
    /\ \E f \in 1..Len(frames) : Cardinality(CitedBy(frames[f].filename)) = 2
    /\ \E f \in 1..Len(frames) : Cardinality(CitedBy(frames[f].filename)) = 0

----------------------------------------------------------------------------
(* The detectors of generate_feedback_events called in another order *)

\* the detectors in the order generate_feedback_events calls them
Detectors == << "first_work", "focus", "return_to_work", "anomaly" >>

\* trigger_type of the events of each
DetectorTypes == << "first_work", "focus", "return_to_work", "anomaly" >>

\* the orders the four calls can be written in
Orders ==
    { o \in [1..4 -> {Detectors[n] : n \in 1..4}] :
        \A a, b \in 1..4 : a # b => o[a] # o[b] }

OrderBlocks == { W(40), N(5), N(45), Alternating(12, 10) }

\* the detector called after detector me, "sort" after the last one
NextOf(me) ==
    LET k == CHOOSE n \in 1..4 : args.order[n] = me
    IN  IF k = 4 THEN "sort" ELSE args.order[k + 1]

\* detect_x(segments, CooldownTracker()): the next detector of the list is
\* called alone, with a tracker of its own
AloneCall ==
    /\ pc = "alone"
    /\ Len(outputs) < 4
    /\ pc' = Detectors[Len(outputs) + 1]
    /\ last_sent_at' = CooldownTracker
    /\ candidates' = << >>
    /\ pos' = 1
    /\ Enter(Detectors[Len(outputs) + 1])
    /\ UNCHANGED <<segments, mergeVars, args, outputs, events>>
    /\ UNCHANGED serviceVars

\* what the detector called alone returned is kept
AloneKeep ==
    /\ pc = "alone_done"
    /\ outputs' = Append(outputs, candidates)
    /\ pc' = IF Len(outputs) = 3 THEN "generate" ELSE "alone"
    /\ UNCHANGED <<segments, mergeVars, args, last_sent_at, candidates, events, pos,
                   focusVars, returnVars, anomalyVars>>
    /\ UNCHANGED serviceVars

\* the head of generate_feedback_events, the four calls that follow being
\* written in the order args.order
OrderedStart ==
    /\ pc = "generate"
    /\ segments' = SortByStartMin(segments)
    /\ last_sent_at' = CooldownTracker
    /\ candidates' = << >>
    /\ pos' = 1
    /\ pc' = args.order[1]
    /\ Enter(args.order[1])
    /\ UNCHANGED <<mergeVars, args, outputs, events>>
    /\ UNCHANGED serviceVars

InitOrders ==
    /\ segments \in Timelines(OrderBlocks)
    /\ pc = "alone"
    /\ MergeIdle
    /\ \E o \in Orders : TriggerInit([order |-> o] @@ PipelineArgs)
    /\ ServiceIdle

\* each detector alone, then the four on one tracker
NextOrders ==
    \/ AloneCall
    \/ AloneKeep
    \/ OrderedStart
    \/ (Len(outputs) < 4 /\ FirstWorkStep("alone_done"))
    \/ (Len(outputs) = 4 /\ FirstWorkStep(NextOf("first_work")))
    \/ FocusStep
    \/ (Len(outputs) < 4 /\ DetectorReturn("focus", "alone_done"))
    \/ (Len(outputs) = 4 /\ DetectorReturn("focus", NextOf("focus")))
    \/ ReturnStep
    \/ (Len(outputs) < 4 /\ DetectorReturn("return_to_work", "alone_done"))
    \/ (Len(outputs) = 4 /\ DetectorReturn("return_to_work", NextOf("return_to_work")))
    \/ AnomalyStep
    \/ (Len(outputs) < 4 /\ DetectorReturn("anomaly", "alone_done"))
    \/ (Len(outputs) = 4 /\ DetectorReturn("anomaly", NextOf("anomaly")))
    \/ SortCandidates

SpecOrders == InitOrders /\ [][NextOrders]_vars

\* the events of one trigger type in a list, in the list's order
OfType(list, t) == SelectSeq(list, LAMBDA e : e.trigger_type = t)

\* the cooldown keys of the four detectors
DetectorKeys ==
    << {"first_work"}, {FocusKeys[n] : n \in 1..Len(args.thresholds)},
       {"return_to_work"}, {"anomaly_switching"} >>

\* C33: the detectors' cooldown keys are pairwise distinct, so on the shared
\* tracker each detector emits exactly the events it emits when it is run
\* alone on a new tracker, and the set of events generate_feedback_events
\* returns is the same for every order of the four calls.
C33_DetectorsIndependent ==
    /\ \A a, b \in 1..4 : a # b => DetectorKeys[a] \cap DetectorKeys[b] = {}
    /\ (pc = "done" /\ Len(outputs) = 4) =>
          /\ \A n \in 1..4 : OfType(candidates, DetectorTypes[n]) = outputs[n]
          /\ { candidates[k] : k \in DOMAIN candidates }
                = UNION { { outputs[n][k] : k \in DOMAIN outputs[n] } : n \in 1..4 }
          /\ Len(candidates) = Len(outputs[1]) + Len(outputs[2])
                                + Len(outputs[3]) + Len(outputs[4])

\* the four calls were made in an order that has return_to_work and anomaly
\* before first_work and focus, and each detector returned an event
C33_Witness ==
    /\ pc = "done"
    /\ Len(outputs) = 4
    /\ args.order = << "anomaly", "return_to_work", "focus", "first_work" >>
    /\ \A n \in 1..4 : outputs[n] # << >>
    /\ Len(candidates) >= 6

----------------------------------------------------------------------------
(* The cooldown an event reports *)

\* C34: every emitted event reports in cooldown_minutes the cooldown that
\* can_send enforces for its key in the detector that emitted it, for
\* first_work, focus, return_to_work and anomaly alike.
C34_ReportedIsEnforced ==
    \A e \in { events[n] : n \in DOMAIN events } \cup
             { candidates[n] : n \in DOMAIN candidates } :
        e.cooldown_minutes = EnforcedCooldown(e)

\* what the code has: first_work and anomaly report what they enforce, focus
\* and return_to_work report 180 minutes and enforce 60
ReportedIsEnforcedOrThreeHours ==
    \A e \in { events[n] : n \in DOMAIN events } \cup
             { candidates[n] : n \in DOMAIN candidates } :
        IF e.trigger_type \in {"focus", "return_to_work"}
        THEN e.cooldown_minutes = 180 /\ EnforcedCooldown(e) = 60
        ELSE e.cooldown_minutes = EnforcedCooldown(e)

\* the returned list holds two return_to_work events and two focus events of
\* one level that are less apart than the cooldown the first of them
\* reports, and a first_work event
C34_Witness ==
    /\ pc = "done"
    /\ \E i, j \in DOMAIN candidates :
          /\ i < j
          /\ candidates[i].trigger_type = "return_to_work"
          /\ SameKey(candidates[i], candidates[j])
          /\ candidates[j].time_minute_of_day - candidates[i].time_minute_of_day
                < candidates[i].cooldown_minutes
    /\ \E i, j \in DOMAIN candidates :
          /\ i < j
          /\ candidates[i].trigger_type = "focus"
          /\ SameKey(candidates[i], candidates[j])
          /\ candidates[j].time_minute_of_day - candidates[i].time_minute_of_day
                < candidates[i].cooldown_minutes
    /\ \E i \in DOMAIN candidates : candidates[i].trigger_type = "first_work"

----------------------------------------------------------------------------
(* A day whose screenshots run up to midnight *)

MaxLateFrames == 3

\* time of the first screenshot taken, minute of the day (23:00, 23:40)
LateTimes == {1380, 1420}

\* the end of the day day_date, in half-minutes: every screenshot
\* _list_day_images returns is of that day
Midnight == Minutes(1440)

\* build_timeline has classified the first screenshot, taken late in the
\* evening
InitLate ==
    /\ cfg \in Configs
    /\ \E t \in LateTimes, b \in Buckets, img \in Images :
          frames = << [ dt |-> Minutes(t), filename |-> 1,
                        dominant_surface |-> b.dominant_surface,
                        activity |-> b.activity,
                        confidence |-> b.confidence,
                        img |-> img ] >>
    /\ pc = "load"
    /\ inferred_interval = 0
    /\ initial = << >>
    /\ idle_intervals = << >>
    /\ all_segments = << >>
    /\ segments = << >>
    /\ TriggerInit(PipelineArgs)
    /\ ServiceIdle

\* build_timeline, then build_feedback_events, on the screenshots of one day
NextLate ==
    \/ (Len(frames) < MaxLateFrames /\ AppendFrame
            /\ frames'[Len(frames')].dt < Midnight)
    \/ Merge
    \/ Handoff
    \/ GenerateStart
    \/ FirstWorkStep("focus")
    \/ FocusStep
    \/ DetectorReturn("focus", "return_to_work")
    \/ ReturnStep
    \/ DetectorReturn("return_to_work", "anomaly")
    \/ AnomalyStep
    \/ DetectorReturn("anomaly", "sort")
    \/ SortCandidates

SpecLate == InitLate /\ [][NextLate]_vars

\* the timeline _merge_frames_into_segments returned is in segments
TimelineReturned == pc \in {"merged", "generate", "first_work", "focus",
                            "return_to_work", "anomaly", "sort", "done"}

\* C35: in the returned timeline no segment ends, as a minute of the day,
\* before it starts, the last one included, whose end is the last frame's
\* time plus the inferred interval; so every event's time_minute_of_day lies
\* between the first segment's start and the last segment's end.
C35_EndNotBeforeStart ==
    /\ TimelineReturned =>
          \A k \in 1..Len(segments) :
              parse_hhmm(segments[k].end_time_local)
                  >= parse_hhmm(segments[k].start_time_local)
    /\ (pc = "done" /\ segments # << >>) =>
          \A n \in DOMAIN candidates :
              /\ candidates[n].time_minute_of_day
                    >= parse_hhmm(segments[1].start_time_local)
              /\ candidates[n].time_minute_of_day
                    <= parse_hhmm(segments[Len(segments)].end_time_local)

\* what holds: the same, on a day whose last frame plus the inferred
\* interval is before midnight
EndNotBeforeStartBeforeMidnight ==
    (frames # << >> /\ LastEndDt < Midnight) => C35_EndNotBeforeStart

\* a day whose last segment ends after midnight: its end_time_local is a
\* smaller minute of the day than its start_time_local, and the returned list
\* has a focus event timed before the first segment's start
C35_Witness ==
    /\ pc = "done"
    /\ segments # << >>
    /\ LastEndDt > Midnight
    /\ parse_hhmm(segments[Len(segments)].end_time_local)
          < parse_hhmm(segments[Len(segments)].start_time_local)
    /\ \E n \in DOMAIN candidates :
          /\ candidates[n].trigger_type = "focus"
          /\ candidates[n].time_minute_of_day
                < parse_hhmm(segments[1].start_time_local)

----------------------------------------------------------------------------
(* serve.py: CaptureManager, its API calls and its loop threads.           *)
(* run_capture of main.py, the loop of the command line.                   *)
(*                                                                         *)
(* A thread is the number of the start() call that created it.  A step of  *)
(* a thread is one access to what it shares with the API calls (the        *)
(* fields, the event) with the local computation that follows it.          *)
(* Left out: interval_sec, started_ts, last_shot_ts, last_block, which no  *)
(* branch reads, and _reload_privacy_into_cfg.                             *)
(* Kept beside the code's own variables, to state properties: in a thread, *)
(* hit and shot (what the iteration's check returned, whether it saved a   *)
(* screenshot), touched (somebody else wrote self.paused since the         *)
(* iteration read it), seen_held and seen_thread (held and _thread when    *)
(* the iteration read the fields); in a screenshot, the thread that saved  *)
(* it and these values at that moment.                                     *)

MaxLoops == 2
MaxShots == 1
MaxLog == 6

\* what check_blacklist does in one iteration: it returns a hit, returns no
\* hit, or raises
CheckResults == {"hit", "clear", "raised"}

\* a thread that start() has just created: _loop not yet at its while
NewLoop ==
    [ at |-> "while", paused |-> FALSE, running |-> FALSE, hit |-> "none",
      shot |-> FALSE, touched |-> FALSE, seen_held |-> FALSE, seen_thread |-> 0 ]

\* a thread whose _loop has returned
ExitedLoop == [NewLoop EXCEPT !.at = "exited"]

\* the positions of _loop between its read of the fields and its next test
\* of the event
InIteration == {"check", "set_paused", "capture", "resume", "sleep"}

\* the threads, after somebody other than thread me wrote self.paused
Touch(ls, me) ==
    [t \in DOMAIN ls |->
        IF t # me /\ ls[t].at \in InIteration
        THEN [ls[t] EXCEPT !.touched = TRUE] ELSE ls[t]]

\* CaptureManager.start(interval_sec)
start ==
    /\ pc = "serve"
    /\ running \/ Len(loops) < MaxLoops
    /\ held' = FALSE
    /\ IF running
       THEN UNCHANGED <<running, paused, _stop_evt, _thread, loops>>
       ELSE /\ running' = TRUE
            /\ paused' = FALSE
            /\ _stop_evt' = FALSE
            /\ _thread' = Len(loops) + 1
            /\ loops' = Append(Touch(loops, 0), NewLoop)
    /\ UNCHANGED <<pipelineVars, shots, run_capture, log, retry>>

\* CaptureManager.stop()
stop ==
    /\ pc = "serve"
    /\ IF ~ running
       THEN UNCHANGED <<running, paused, _stop_evt, loops, held>>
       ELSE /\ _stop_evt' = TRUE
            /\ running' = FALSE
            /\ paused' = FALSE
            /\ loops' = Touch(loops, 0)
            /\ held' = FALSE
    /\ UNCHANGED <<pipelineVars, _thread, shots, run_capture, log, retry>>

\* CaptureManager.pause(p)
pause ==
    /\ pc = "serve"
    /\ \E p \in BOOLEAN :
          IF ~ running
          THEN UNCHANGED <<paused, loops, held>>
          ELSE /\ paused' = p
               /\ loops' = Touch(loops, 0)
               /\ held' = p
    /\ UNCHANGED <<pipelineVars, running, _stop_evt, _thread, shots,
                   run_capture, log, retry>>

\* _loop: while not self._stop_evt.is_set()
LoopWhile(t) ==
    /\ loops[t].at = "while"
    /\ loops' = [loops EXCEPT ![t] =
                    IF _stop_evt THEN ExitedLoop ELSE [@ EXCEPT !.at = "lock"]]
    /\ UNCHANGED <<pipelineVars, running, paused, _stop_evt, _thread, shots, held,
                   run_capture, log, retry>>

\* _loop: the fields read under the lock, and if not running: break
LoopRead(t) ==
    /\ loops[t].at = "lock"
    /\ loops' = [loops EXCEPT ![t] =
                    IF ~ running THEN ExitedLoop
                    ELSE [ at |-> "check", paused |-> paused, running |-> running,
                           hit |-> "none", shot |-> FALSE, touched |-> FALSE,
                           seen_held |-> held, seen_thread |-> _thread ]]
    /\ UNCHANGED <<pipelineVars, running, paused, _stop_evt, _thread, shots, held,
                   run_capture, log, retry>>

\* a loop that takes its screenshot whatever the check returns
AfterCheckIgnoresHit(was_paused, r) ==
    IF r = "raised" THEN "sleep"
    ELSE IF ~ was_paused THEN "capture"
    ELSE IF r = "clear" THEN "resume" ELSE "sleep"

\* _loop: where the iteration goes after check_blacklist returned r, paused
\* being what the iteration read
AfterCheck(was_paused, r) ==
    IF r = "raised" THEN "sleep"
    ELSE IF ~ was_paused
         THEN (IF r = "hit" THEN "set_paused" ELSE "capture")
         ELSE (IF r = "clear" THEN "resume" ELSE "sleep")

\* _loop: check_blacklist(...)
LoopCheck(t) ==
    /\ loops[t].at = "check"
    /\ \E r \in CheckResults :
          loops' = [loops EXCEPT ![t] =
                        [@ EXCEPT !.hit = r, !.at = AfterCheck(loops[t].paused, r)]]
    /\ UNCHANGED <<pipelineVars, running, paused, _stop_evt, _thread, shots, held,
                   run_capture, log, retry>>

\* _loop: self.paused = True, after a hit
LoopSetPaused(t) ==
    /\ loops[t].at = "set_paused"
    /\ paused' = TRUE
    /\ loops' = [Touch(loops, t) EXCEPT ![t].at = "sleep"]
    /\ UNCHANGED <<pipelineVars, running, _stop_evt, _thread, shots, held,
                   run_capture, log, retry>>

\* _loop: self._capture_once(), which saves a screenshot or raises
LoopCapture(t) ==
    /\ loops[t].at = "capture"
    /\ Len(shots) < MaxShots
    /\ \/ /\ shots' = Append(shots,
                [ by |-> t, current |-> _thread, held |-> held,
                  seen_held |-> loops[t].seen_held,
                  seen_thread |-> loops[t].seen_thread, hit |-> loops[t].hit ])
          /\ loops' = [loops EXCEPT ![t].at = "sleep", ![t].shot = TRUE]
       \/ /\ loops' = [loops EXCEPT ![t].at = "sleep"]
          /\ UNCHANGED shots
    /\ UNCHANGED <<pipelineVars, running, paused, _stop_evt, _thread, held,
                   run_capture, log, retry>>

\* _loop: self.paused = False, when the loop was paused and the check is clear
LoopResume(t) ==
    /\ loops[t].at = "resume"
    /\ paused' = FALSE
    /\ loops' = [Touch(loops, t) EXCEPT ![t].at = "sleep"]
    /\ UNCHANGED <<pipelineVars, running, _stop_evt, _thread, shots, held,
                   run_capture, log, retry>>

\* _loop: the wait is over, by the interval or by the event; what the
\* iteration read is not read again
LoopSleep(t) ==
    /\ loops[t].at = "sleep"
    /\ loops' = [loops EXCEPT ![t] = NewLoop]
    /\ UNCHANGED <<pipelineVars, running, paused, _stop_evt, _thread, shots, held,
                   run_capture, log, retry>>

\* run_capture: the lines before the loop
RunCaptureBegin ==
    /\ pc = "run_capture"
    /\ pc' = "capturing"
    /\ run_capture' = [paused |-> FALSE, hit |-> FALSE, logged |-> 1]
    /\ log' = << "session_start" >>
    /\ UNCHANGED <<segments, mergeVars, triggerVars, running, paused, _stop_evt,
                   _thread, loops, shots, held, retry>>

\* run_capture: the pass of the loop in which the stop time is reached, and
\* the lines after the loop
RunCaptureStop ==
    /\ pc = "capturing"
    /\ pc' = "returned"
    /\ log' = log \o << "session_stop_time_reached", "session_end" >>
    /\ run_capture' = [run_capture EXCEPT !.hit = FALSE, !.logged = Len(log)]
    /\ UNCHANGED <<segments, mergeVars, triggerVars, running, paused, _stop_evt,
                   _thread, loops, shots, held, retry>>

\* a pass that takes its screenshot on a hit as well
RunCapturePassIgnoresHit(hit) ==
    [ paused |-> FALSE,
      entries |-> (IF run_capture.paused THEN << "resume_capture" >> ELSE << >>)
                    \o << "screenshot" >> ]

\* run_capture: what one pass of the loop leaves in paused and appends to the
\* log, hit being what check_blacklist returned
RunCapturePass(hit) ==
    IF hit
    THEN [ paused |-> TRUE,
           entries |-> IF ~ run_capture.paused THEN << "pause_capture" >> ELSE << >> ]
    ELSE [ paused |-> FALSE,
           entries |-> (IF run_capture.paused THEN << "resume_capture" >> ELSE << >>)
                         \o << "screenshot" >> ]

\* run_capture: one pass of the loop before the stop time
RunCaptureStep ==
    /\ pc = "capturing"
    /\ Len(log) < MaxLog
    /\ \E hit \in BOOLEAN :
          /\ run_capture' = [ paused |-> RunCapturePass(hit).paused, hit |-> hit,
                              logged |-> Len(log) ]
          /\ log' = log \o RunCapturePass(hit).entries
    /\ UNCHANGED <<pc, segments, mergeVars, triggerVars, running, paused, _stop_evt,
                   _thread, loops, shots, held, retry>>

\* the server with its capture manager, or the command line's run_capture
InitCapture ==
    /\ pc \in {"serve", "run_capture"}
    /\ segments = << >>
    /\ MergeIdle
    /\ TriggerInit(PipelineArgs)
    /\ ServiceIdle

NextCapture ==
    \/ start
    \/ stop
    \/ pause
    \/ \E t \in DOMAIN loops : LoopWhile(t)
    \/ \E t \in DOMAIN loops : LoopRead(t)
    \/ \E t \in DOMAIN loops : LoopCheck(t)
    \/ \E t \in DOMAIN loops : LoopSetPaused(t)
    \/ \E t \in DOMAIN loops : LoopCapture(t)
    \/ \E t \in DOMAIN loops : LoopResume(t)
    \/ \E t \in DOMAIN loops : LoopSleep(t)
    \/ RunCaptureBegin
    \/ RunCaptureStop
    \/ RunCaptureStep

SpecCapture == InitCapture /\ [][NextCapture]_vars

----------------------------------------------------------------------------
(* Properties of the capture loops *)

\* C36: whatever the interleaving of start(), stop() and pause() with the
\* loop threads, only one loop thread takes screenshots: after a stop()
\* followed by a start() the previous thread does not run on beside the new
\* one, so no thread runs an iteration and saves a screenshot in it when
\* another thread was the manager's current one as the iteration began.
C36_OneLoopCaptures ==
    \A k \in DOMAIN shots : shots[k].by = shots[k].seen_thread

\* the first thread saved a screenshot in an iteration it began after the
\* second start(), and the second thread is running its loop
C36_Witness ==
    /\ Len(loops) = 2
    /\ running
    /\ loops[1].at # "exited"
    /\ loops[2].at \in InIteration
    /\ \E k \in DOMAIN shots :
          /\ shots[k].by = 1
          /\ shots[k].seen_thread = 2
          /\ shots[k].current = 2

\* C37: after pause(True) on a running manager no screenshot is saved until
\* pause(False), stop() or start() is called, whatever check_blacklist
\* returns: no iteration that began under the pause saves one.
C37_NoShotWhilePaused ==
    \A k \in DOMAIN shots : ~ (shots[k].held /\ shots[k].seen_held)

\* the only thread there is saved a screenshot while pause(True) was in
\* force, in an iteration that began under it
C37_Witness ==
    /\ Len(loops) = 1
    /\ running
    /\ held
    /\ \E k \in DOMAIN shots :
          /\ shots[k].held
          /\ shots[k].seen_held
          /\ shots[k].by = 1

\* the entries run_capture appended in the pass it made last
LastEntries == SubSeq(log, run_capture.logged + 1, Len(log))

Has(list, x) == \E n \in DOMAIN list : list[n] = x

\* the pause_capture and resume_capture entries of the log, in order
PauseResume == SelectSeq(log, LAMBDA e : e \in {"pause_capture", "resume_capture"})

\* C38: in both loops a screenshot is taken in an iteration only if the
\* iteration's blacklist check returned no hit; an iteration whose check hit
\* takes no screenshot and leaves the loop paused (in _loop: self.paused is
\* set, as long as nobody else has written it since the iteration read it);
\* in run_capture's log pause_capture and resume_capture alternate, a
\* pause_capture first, with no screenshot between a pause and its resume.
C38_ShotOnlyWhenClear ==
    /\ \A k \in DOMAIN shots : shots[k].hit = "clear"
    /\ \A t \in DOMAIN loops :
          /\ loops[t].shot => loops[t].hit = "clear"
          /\ (loops[t].at = "sleep" /\ loops[t].hit = "hit") =>
                /\ ~ loops[t].shot
                /\ loops[t].touched \/ paused
    /\ pc \in {"capturing", "returned"} =>
          /\ Has(LastEntries, "screenshot") => ~ run_capture.hit
          /\ run_capture.hit => run_capture.paused
          /\ \A n \in DOMAIN PauseResume :
                PauseResume[n] = IF n % 2 = 1 THEN "pause_capture" ELSE "resume_capture"
          /\ \A a, b \in DOMAIN log :
                (a < b /\ log[a] = "pause_capture" /\ log[b] = "screenshot") =>
                    \E c \in (a + 1)..(b - 1) : log[c] = "resume_capture"
          /\ run_capture.paused <=> (Len(PauseResume) % 2 = 1)

\* a screenshot was saved, and an iteration whose check hit has set
\* self.paused and is in its wait
C38_Witness ==
    /\ pc = "serve"
    /\ shots # << >>
    /\ paused
    /\ \E t \in DOMAIN loops :
          /\ loops[t].at = "sleep"
          /\ loops[t].hit = "hit"
          /\ ~ loops[t].touched
          /\ ~ loops[t].paused

\* run_capture has logged a pause, its resume with a screenshot, and a
\* second pause
C38_WitnessLog ==
    /\ pc = "capturing"
    /\ run_capture.paused
    /\ Len(PauseResume) = 3
    /\ Has(log, "screenshot")

----------------------------------------------------------------------------
(* timeline_pipeline.py: _call_generate_content_with_quota_retry           *)
(*                                                                         *)
(* One step is one pass of the for loop up to its return, its raise or its *)
(* time.sleep; the sleep is a step of its own.  Delays are whole seconds.  *)
(* An exception is what the handler reads of it: whether str(e) holds      *)
(* "429", whether it holds "RESOURCE_EXHAUSTED", and the number after      *)
(* "Please retry in", if there is one, as float() reads it.  max_retries   *)
(* is 6 in every call the repository makes; the smaller values are drawn   *)
(* as well, negative ones are not.                                         *)

MaxRetries == 6

\* the numbers of seconds a message may hold after "Please retry in":
\* none, or one number
RetryHints == { << >>, << 0 >>, << 7 >> }

\* random.uniform(0.0, 1.0), at its two ends
Jitter == {0, 1}

\* the exceptions generate_content raises
Errors ==
    [ has_429 : BOOLEAN, has_resource_exhausted : BOOLEAN, retry_in : RetryHints ]

\* a handler that takes every exception for a quota error
IsQuotaAlways(e) == TRUE

\* not (("429" not in msg) and ("RESOURCE_EXHAUSTED" not in msg))
IsQuota(e) == ~ (~ e.has_429 /\ ~ e.has_resource_exhausted)

RECURSIVE Pow2(_)
\* 2.0 ** attempt
Pow2(n) == IF n = 0 THEN 1 ELSE 2 * Pow2(n - 1)

\* the delay the handler computes: the server's, or the backoff with jitter
RetryDelay(e, attempt, jitter) ==
    IF e.retry_in # << >> THEN e.retry_in[1]
    ELSE Min(60, Pow2(attempt)) + jitter

\* _call_generate_content_with_quota_retry is called
RetryStart(max_retries) ==
    [ max_retries |-> max_retries, attempt |-> 0, tries |-> << >>,
      sleeps |-> 0, delay |-> 0, e |-> << >>, raised |-> << >> ]

\* the pass of the loop in which generate_content returns a response
CallReturns ==
    /\ pc = "call"
    /\ retry.attempt <= retry.max_retries
    /\ retry' = [retry EXCEPT !.tries = Append(@, "response")]
    /\ pc' = "returned"
    /\ UNCHANGED <<segments, mergeVars, triggerVars, captureVars>>

\* the pass of the loop in which generate_content raises e: the handler
\* raises it again, or goes to sleep
CallRaises ==
    /\ pc = "call"
    /\ retry.attempt <= retry.max_retries
    /\ \E e \in Errors, jitter \in Jitter :
          IF ~ IsQuota(e)
          THEN /\ retry' = [retry EXCEPT !.tries = Append(@, "other"),
                                         !.e = << e >>, !.raised = << e >>]
               /\ pc' = "raised"
          ELSE /\ retry' = [retry EXCEPT
                                !.tries = Append(@, "quota"),
                                !.e = << e >>,
                                !.delay = RetryDelay(e, retry.attempt, jitter),
                                !.raised = IF retry.attempt >= retry.max_retries
                                           THEN << e >> ELSE << >>]
               /\ pc' = IF retry.attempt >= retry.max_retries
                        THEN "raised" ELSE "sleep"
    /\ UNCHANGED <<segments, mergeVars, triggerVars, captureVars>>

\* time.sleep(delay), and the next attempt of the for loop
RetrySleep ==
    /\ pc = "sleep"
    /\ retry' = [retry EXCEPT !.sleeps = @ + 1, !.attempt = @ + 1]
    /\ pc' = "call"
    /\ UNCHANGED <<segments, mergeVars, triggerVars, captureVars>>

InitRetry ==
    /\ pc = "call"
    /\ segments = << >>
    /\ MergeIdle
    /\ TriggerInit(PipelineArgs)
    /\ CaptureIdle
    /\ \E max_retries \in 0..MaxRetries : retry = RetryStart(max_retries)

NextRetry ==
    \/ CallReturns
    \/ CallRaises
    \/ RetrySleep

\* generate_content returns or raises, and time.sleep returns
SpecRetry == InitRetry /\ [][NextRetry]_vars /\ WF_vars(NextRetry)

----------------------------------------------------------------------------
(* Properties of the retry loop *)

\* the calls of generate_content so far
Calls == Len(retry.tries)

RetryDone == pc \in {"returned", "raised"}

\* the last exception is a quota error: its message holds "429" or
\* "RESOURCE_EXHAUSTED"
LastIsQuotaError ==
    /\ retry.e # << >>
    /\ retry.e[1].has_429 \/ retry.e[1].has_resource_exhausted

\* the last exception is not a quota error
LastIsOtherError ==
    /\ retry.e # << >>
    /\ ~ retry.e[1].has_429
    /\ ~ retry.e[1].has_resource_exhausted

\* what holds of the retry loop in every state
RetrySafe ==
    /\ Calls <= retry.max_retries + 1
    /\ retry.sleeps <= retry.max_retries
    /\ \A n \in 1..(Calls - 1) : retry.tries[n] = "quota"
    /\ pc = "returned" =>
          /\ retry.tries[Calls] = "response"
          /\ retry.raised = << >>
    /\ pc = "raised" =>
          /\ retry.tries[Calls] # "response"
          /\ retry.raised = retry.e
          /\ retry.sleeps = Calls - 1
          /\ retry.tries[Calls] = "other" <=> LastIsOtherError
          /\ LastIsQuotaError => Calls = retry.max_retries + 1
    /\ LastIsOtherError => pc = "raised"
    /\ pc = "sleep" =>
          /\ retry.tries[Calls] = "quota"
          /\ LastIsQuotaError
          /\ Calls <= retry.max_retries
    /\ pc \in {"call", "sleep"} => retry.raised = << >>

\* C39: _call_generate_content_with_quota_retry ends, after at most
\* max_retries + 1 calls of generate_content: the first response is
\* returned, every call before it having failed on a quota error; an error
\* that is not a quota error is raised again at once; a quota error is
\* raised again when it is the (max_retries + 1)-th failure, with no sleep
\* after it (max_retries sleeps in all).
C39_RetryEnds == ([] RetrySafe) /\ <> RetryDone

\* every attempt failed on a quota error, the seventh as well, and the error
\* was raised again after six sleeps
C39_Witness ==
    /\ pc = "raised"
    /\ retry.max_retries = MaxRetries
    /\ Calls = MaxRetries + 1
    /\ retry.sleeps = MaxRetries
    /\ LastIsQuotaError
    /\ retry.delay = 60

\* the second call returned a response after one sleep
C39_WitnessReturned ==
    /\ pc = "returned"
    /\ Calls = 2
    /\ retry.sleeps = 1

====
